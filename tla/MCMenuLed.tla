----------------------------- MODULE MCMenuLed -----------------------------
(***************************************************************************)
(* MenuLed as TLC checks it: with a history of what spoilt the LED, so     *)
(* that one run says what holds always and what holds until then.          *)
(***************************************************************************)
EXTENDS MenuLed

\* "cut": a call for the current mask has stopped the timer of a flash.
\* "overlap": a restore has met a set in its last two steps.
\* "cancelled": an installation was cancelled.
VARIABLE spoilt

mcVars == <<menuVars, spoilt>>

\* StopTimer returns early, and the flash that was on stays.
CutsFlash == caller = "stop" /\ caller' = "out" /\ ledTimer = "armed"

\* asyncThread has read the mask that a set is about to replace, and writes it after
\* the set has written its own.
OverlapsSet ==
    /\ caller = "finish" /\ ~call.flash /\ async = "write"
    /\ async' = "wait" \/ caller' = "out"

Cancelled == screen = "install" /\ screen' = "main"

Spoils ==
    {what \in {"cut", "overlap", "cancelled"} :
        CASE what = "cut"       -> CutsFlash
          [] what = "overlap"   -> OverlapsSet
          [] what = "cancelled" -> Cancelled}

MCInit == MenuInit /\ spoilt = {}

MCNext == MenuNext /\ spoilt' = spoilt \cup Spoils

MCSpec == MCInit /\ [][MCNext]_mcVars /\ MenuFairness

-----------------------------------------------------------------------------

\* Nothing but a cut flash and an overlap makes the LED show another mask than the
\* current one once nothing is under way: a restore that comes too late to be cancelled
\* ("Cancel any pending led updates") may come into a call anywhere else.
LedMatchesMaskUnspoilt == spoilt \subseteq {"cancelled"} => LedMatchesMask

\* Nothing but these two and a cancelled installation makes the main menu show another
\* LED than purple.
ReadyIsPurpleUnspoilt == spoilt = {} => ReadyIsPurple
=============================================================================
