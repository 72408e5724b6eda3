-------------------------- MODULE InstallWupProofs --------------------------
(***************************************************************************)
(* Safety of the installation for any results and whatever calls fail.     *)
(***************************************************************************)
EXTENDS InstallWup, TLAPS

\* Every variable keeps its type; the queue only ever holds replies and NULL.
THEOREM InstallTypeCorrect == Spec => []TypeOK
<1> USE InstallConstants DEF TypeOK, At, Fails, Callback, shared
<1>1. Init => TypeOK
  BY DEF Init
<1>2. TypeOK /\ [Next]_vars => TypeOK'
  <2> SUFFICES ASSUME TypeOK, [Next]_vars PROVE TypeOK'
    OBVIOUS
  <2>1. CASE OpenMcp
    BY <2>1 DEF OpenMcp
  <2>2. CASE GetInfo
    BY <2>2 DEF GetInfo
  <2>3. CASE Choose
    BY <2>3 DEF Choose
  <2>4. CASE SetTarget
    BY <2>4 DEF SetTarget
  <2>5. CASE CreateQueue
    BY <2>5 DEF CreateQueue
  <2>6. CASE CreateThread
    BY <2>6 DEF CreateThread
  <2>7. CASE StartThread
    BY <2>7 DEF StartThread
  <2>8. CASE SetFlags
    BY <2>8 DEF SetFlags
  <2>9. CASE InstallTitleAsync
    BY <2>9 DEF InstallTitleAsync
  <2>10. CASE SendNull
    BY <2>10 DEF SendNull
  <2>11. CASE Poll
    BY <2>11 DEF Poll
  <2>12. CASE Report
    BY <2>12 DEF Report
  <2>13. CASE Dismiss
    BY <2>13 DEF Dismiss
  <2>14. CASE JoinThread
    BY <2>14 DEF JoinThread
  <2>15. CASE DestroyQueue
    BY <2>15 DEF DestroyQueue
  <2>16. CASE CloseMcp
    BY <2>16 DEF CloseMcp
  <2>17. CASE McpReplies
    BY <2>17 DEF McpReplies
  <2>18. CASE Receive
    <3>1. messages # <<>> => Tail(messages) \in Seq({Null, Reply})
      OBVIOUS
    <3> QED
      BY <2>18, <3>1 DEF Receive
  <2>19. CASE StoreFirst
    BY <2>19 DEF StoreFirst
  <2>20. CASE StoreSecond
    BY <2>20 DEF StoreSecond
  <2>21. CASE FreeRequest
    BY <2>21 DEF FreeRequest
  <2>22. CASE UNCHANGED vars
    BY <2>22 DEF vars
  <2> QED
    BY <2>1, <2>2, <2>3, <2>4, <2>5, <2>6, <2>7, <2>8, <2>9, <2>10, <2>11, <2>12, <2>13, <2>14, <2>15, <2>16, <2>17, <2>18, <2>19, <2>20, <2>21, <2>22
    DEF Next, UserStep, MenuStep, CallbackStep
<1> QED
  BY <1>1, <1>2, PTL DEF Spec

\* A queue of one message.
LEMMA OneMessage ==
    ASSUME NEW m
    PROVE  /\ Append(<<>>, m) = <<m>>
           /\ Head(<<m>>) = m /\ Tail(<<m>>) = <<>> /\ <<m>> # <<>>
OBVIOUS

\* No step breaks RequestInv: the menu thread, MCP and the callback thread
\* hand the request and the queue to one another in one order only.
LEMMA RequestInvStep == TypeOK /\ RequestInv /\ [Next]_vars => RequestInv'
<1> SUFFICES ASSUME TypeOK, RequestInv, [Next]_vars PROVE RequestInv'
  OBVIOUS
<1> USE InstallConstants
    DEF RequestInv, NobodyElse, InFlight, Before, Waiting, Storing, At, Fails, Callback, shared
<1>1. CASE OpenMcp
  BY <1>1 DEF OpenMcp
<1>2. CASE GetInfo
  BY <1>2 DEF GetInfo
<1>3. CASE Choose
  BY <1>3 DEF Choose
<1>4. CASE SetTarget
  BY <1>4 DEF SetTarget
<1>5. CASE CreateQueue
  BY <1>5 DEF CreateQueue
<1>6. CASE CreateThread
  BY <1>6 DEF CreateThread
<1>7. CASE StartThread
  BY <1>7 DEF StartThread
<1>8. CASE SetFlags
  BY <1>8 DEF SetFlags
<1>9. CASE InstallTitleAsync
  BY <1>9 DEF InstallTitleAsync
<1>10. CASE SendNull
  BY <1>10 DEF SendNull
<1>11. CASE Poll
  BY <1>11 DEF Poll
<1>12. CASE Report
  BY <1>12 DEF Report
<1>13. CASE Dismiss
  BY <1>13 DEF Dismiss
<1>14. CASE JoinThread
  BY <1>14 DEF JoinThread
<1>15. CASE DestroyQueue
  BY <1>15 DEF DestroyQueue
<1>16. CASE CloseMcp
  BY <1>16 DEF CloseMcp
<1>17. CASE McpReplies
  <2>1. mcp = "installing" /\ mcp' = "replied" /\ UNCHANGED <<pc, queue, callback, asyncPending, ioBuf>>
    BY <1>17 DEF McpReplies
  <2>2. pc \in Waiting
    BY <2>1 DEF TypeOK
  <2>3. InFlight /\ queue = "exists" /\ messages = <<>>
    BY <2>1, <2>2
  <2>4. messages' = <<Reply>>
    BY <1>17, <2>3, OneMessage DEF McpReplies
  <2> QED
    BY <2>1, <2>2, <2>3, <2>4
<1>18. CASE Receive
  <2>1. callback = "receive" /\ UNCHANGED <<pc, queue, asyncPending, ioBuf, mcp>>
    BY <1>18 DEF Receive
  <2>2. pc \notin Before
    BY <2>1
  <2>3. CASE UNCHANGED messages /\ callback' = "ended"
    BY <2>1, <2>2, <2>3
  <2>4. CASE messages # <<>> /\ messages' = Tail(messages)
    <3>1. messages \in {<<Reply>>, <<Null>>}
      BY <2>1, <2>2, <2>4 DEF TypeOK
    <3>2. messages' = <<>> /\ callback' = IF messages = <<Reply>> THEN "store" ELSE "ended"
      BY <1>18, <2>4, <3>1, OneMessage DEF Receive
    <3>3. CASE pc = "joinRefused"
      <4>1. messages = <<Null>>
        BY <2>1, <3>1, <3>3
      <4> QED
        BY <2>1, <3>2, <3>3, <4>1, OneMessage
    <3>4. CASE pc \in Waiting
      <4>1. messages = <<Reply>> /\ mcp = "replied" /\ ioBuf = "used" /\ queue = "exists"
        BY <2>1, <2>4, <3>4
      <4> QED
        BY <2>1, <3>2, <3>4, <4>1
    <3> QED
      BY <2>1, <2>2, <2>4, <3>3, <3>4 DEF TypeOK
  <2> QED
    BY <1>18, <2>3, <2>4 DEF Receive
<1>19. CASE StoreFirst
  BY <1>19 DEF StoreFirst
<1>20. CASE StoreSecond
  BY <1>20 DEF StoreSecond
<1>21. CASE FreeRequest
  <2>1. callback = "free" /\ callback' = "ended" /\ UNCHANGED <<pc, queue, messages, asyncPending, mcp>>
    BY <1>21 DEF FreeRequest
  <2> QED
    BY <2>1
<1>22. CASE UNCHANGED vars
  BY <1>22 DEF vars
<1> QED
  BY <1>1, <1>2, <1>3, <1>4, <1>5, <1>6, <1>7, <1>8, <1>9, <1>10, <1>11, <1>12, <1>13, <1>14, <1>15, <1>16, <1>17, <1>18, <1>19, <1>20, <1>21, <1>22
  DEF Next, UserStep, MenuStep, CallbackStep

\* The callback thread reads and frees the request only while it is allocated,
\* whoever was refused or failed before, and the queue, whose buffer is on the menu thread's stack, outlives those who use it.
THEOREM RequestSafety == Spec => []RequestOutlivesUsers
<1>1. Init => RequestInv
  BY DEF Init, RequestInv, NobodyElse, Before, Waiting
<1>2. TypeOK /\ RequestInv /\ [Next]_vars => RequestInv'
  BY RequestInvStep
<1>3. TypeOK /\ RequestInv => RequestOutlivesUsers
  BY DEF RequestInv, NobodyElse, InFlight, Before, Waiting, Storing, TypeOK,
         RequestOutlivesUsers
<1> QED
  BY <1>1, <1>2, <1>3, InstallTypeCorrect, PTL DEF Spec

\* The menu thread that sees asyncPending cleared sees the result that MCP sent
\* or, in a build that reorders the two stores, the -1 it had set itself.
LEMMA ResultInvStep == TypeOK /\ RequestInv /\ ResultInv /\ [Next]_vars => ResultInv'
<1> SUFFICES ASSUME TypeOK, RequestInv, ResultInv, [Next]_vars PROVE ResultInv'
  OBVIOUS
<1> USE InstallConstants DEF ResultInv, Waiting, At, Fails, Callback, shared
<1>1. CASE OpenMcp
  BY <1>1 DEF OpenMcp
<1>2. CASE GetInfo
  BY <1>2 DEF GetInfo
<1>3. CASE Choose
  BY <1>3 DEF Choose
<1>4. CASE SetTarget
  BY <1>4 DEF SetTarget
<1>5. CASE CreateQueue
  BY <1>5 DEF CreateQueue
<1>6. CASE CreateThread
  BY <1>6 DEF CreateThread
<1>7. CASE StartThread
  BY <1>7 DEF StartThread
<1>8. CASE SetFlags
  BY <1>8 DEF SetFlags
<1>9. CASE InstallTitleAsync
  BY <1>9 DEF InstallTitleAsync, RequestInv
<1>10. CASE SendNull
  BY <1>10 DEF SendNull
<1>11. CASE Poll
  BY <1>11 DEF Poll
<1>12. CASE Report
  BY <1>12 DEF Report
<1>13. CASE Dismiss
  BY <1>13 DEF Dismiss
<1>14. CASE JoinThread
  BY <1>14 DEF JoinThread
<1>15. CASE DestroyQueue
  BY <1>15 DEF DestroyQueue
<1>16. CASE CloseMcp
  BY <1>16 DEF CloseMcp
<1>17. CASE McpReplies
  <2>1. mcp = "installing" /\ UNCHANGED <<pc, callback, asyncPending, asyncResult, order>>
    BY <1>17 DEF McpReplies
  <2>2. pc \in Waiting => asyncPending = 1 /\ callback # "storePending"
    BY <2>1 DEF RequestInv, InFlight
  <2> QED
    BY <2>1, <2>2
<1>18. CASE Receive
  BY <1>18 DEF Receive
<1>19. CASE StoreFirst
  BY <1>19 DEF StoreFirst, RequestInv, InFlight, Storing, TypeOK
<1>20. CASE StoreSecond
  BY <1>20 DEF StoreSecond, RequestInv, InFlight
<1>21. CASE FreeRequest
  BY <1>21 DEF FreeRequest, RequestInv, InFlight
<1>22. CASE UNCHANGED vars
  BY <1>22 DEF vars
<1> QED
  BY <1>1, <1>2, <1>3, <1>4, <1>5, <1>6, <1>7, <1>8, <1>9, <1>10, <1>11, <1>12, <1>13, <1>14, <1>15, <1>16, <1>17, <1>18, <1>19, <1>20, <1>21, <1>22
  DEF Next, UserStep, MenuStep, CallbackStep

\* What the screen says about an installation is what MCP said about it, also
\* after earlier installations.
THEOREM ReportSafety == Spec => []ReportTruthful
<1>1. Init => RequestInv
  BY DEF Init, RequestInv, NobodyElse, Before, Waiting
<1>2. Init => ResultInv
  BY DEF Init, ResultInv, Waiting
<1>3. TypeOK /\ RequestInv /\ [Next]_vars => RequestInv'
  BY RequestInvStep
<1>4. TypeOK /\ RequestInv /\ ResultInv /\ [Next]_vars => ResultInv'
  BY ResultInvStep
<1>5. RequestInv /\ ResultInv => ReportTruthful
  BY InstallConstants DEF RequestInv, InFlight, Storing, Waiting, ResultInv, ReportTruthful
<1> QED
  BY <1>1, <1>2, <1>3, <1>4, <1>5, InstallTypeCorrect, PTL DEF Spec

\* Each place gives back what it has to before the next one, on every way out.
LEMMA LeftInvStep == TypeOK /\ RequestInv /\ LeftInv /\ [Next]_vars => LeftInv'
<1> SUFFICES ASSUME TypeOK, RequestInv, LeftInv, [Next]_vars PROVE LeftInv'
  OBVIOUS
<1> USE InstallConstants DEF LeftInv, Outside, Ready, Unstarted, Waiting, At, Fails, Callback, shared
<1>1. CASE OpenMcp
  BY <1>1 DEF OpenMcp
<1>2. CASE GetInfo
  BY <1>2 DEF GetInfo
<1>3. CASE Choose
  BY <1>3 DEF Choose
<1>4. CASE SetTarget
  BY <1>4 DEF SetTarget
<1>5. CASE CreateQueue
  BY <1>5 DEF CreateQueue
<1>6. CASE CreateThread
  BY <1>6 DEF CreateThread, RequestInv
<1>7. CASE StartThread
  BY <1>7 DEF StartThread, RequestInv, Before
<1>8. CASE SetFlags
  BY <1>8 DEF SetFlags, RequestInv
<1>9. CASE InstallTitleAsync
  BY <1>9 DEF InstallTitleAsync, RequestInv
<1>10. CASE SendNull
  BY <1>10 DEF SendNull
<1>11. CASE Poll
  BY <1>11 DEF Poll
<1>12. CASE Report
  BY <1>12 DEF Report
<1>13. CASE Dismiss
  BY <1>13 DEF Dismiss
<1>14. CASE JoinThread
  BY <1>14 DEF JoinThread, RequestInv, InFlight, Storing
<1>15. CASE DestroyQueue
  BY <1>15 DEF DestroyQueue, RequestInv
<1>16. CASE CloseMcp
  BY <1>16 DEF CloseMcp, RequestInv
<1>17. CASE McpReplies
  BY <1>17 DEF McpReplies
<1>18. CASE Receive
  <2>1. callback = "receive" /\ callback' \in {"store", "ended"} /\ UNCHANGED <<pc, mcpHandle, queue, asyncPending, ioBuf>>
    BY <1>18 DEF Receive
  <2>2. pc \notin Before /\ (pc \in Waiting => asyncPending = 1)
    BY <2>1 DEF RequestInv, InFlight, Storing, Before
  <2> QED
    BY <2>1, <2>2 DEF Before
<1>19. CASE StoreFirst
  BY <1>19 DEF StoreFirst, RequestInv, Before, TypeOK, InFlight
<1>20. CASE StoreSecond
  BY <1>20 DEF StoreSecond, RequestInv, Before, TypeOK, InFlight
<1>21. CASE FreeRequest
  BY <1>21 DEF FreeRequest, RequestInv, Before, TypeOK, InFlight
<1>22. CASE UNCHANGED vars
  BY <1>22 DEF vars
<1> QED
  BY <1>1, <1>2, <1>3, <1>4, <1>5, <1>6, <1>7, <1>8, <1>9, <1>10, <1>11, <1>12, <1>13, <1>14, <1>15, <1>16, <1>17, <1>18, <1>19, <1>20, <1>21, <1>22
  DEF Next, UserStep, MenuStep, CallbackStep

\* Whatever failed, back in the main menu the thread is reaped unless it was never
\* started, the request freed, the queue destroyed and the handle closed.
THEOREM NothingLeftSafety == Spec => []NothingLeft
<1>1. Init => RequestInv
  BY DEF Init, RequestInv, NobodyElse, Before, Waiting
<1>2. Init => LeftInv
  BY DEF Init, LeftInv, Outside, Ready, Unstarted, Waiting
<1>3. TypeOK /\ RequestInv /\ [Next]_vars => RequestInv'
  BY RequestInvStep
<1>4. TypeOK /\ RequestInv /\ LeftInv /\ [Next]_vars => LeftInv'
  BY LeftInvStep
<1>5. RequestInv /\ LeftInv => NothingLeft
  BY DEF RequestInv, NobodyElse, Before, LeftInv, Outside, Waiting, NothingLeft
<1> QED
  BY <1>1, <1>2, <1>3, <1>4, <1>5, InstallTypeCorrect, PTL DEF Spec
=============================================================================
