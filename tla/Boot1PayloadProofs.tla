------------------------- MODULE Boot1PayloadProofs -------------------------
(***************************************************************************)
(* Loading a payload is safe for any files, any SEEPROM and whatever calls *)
(* fail; the active version is found whenever the SEEPROM can be read.     *)
(***************************************************************************)
EXTENDS Boot1Payload, TLAPS

\* determineActiveBoot1Slot finds a valid slot, and none that is newer.
LEMMA ActiveSlotIsNewest ==
    ASSUME NEW params \in [Slots -> Params]
    PROVE  LET active == ActiveSlot(params)
           IN  active # -1 =>
                  /\ active \in Slots /\ params[active].valid
                  /\ \A slot \in Slots :
                        params[slot].valid => params[slot].version <= params[active].version
<1> DEFINE valid == {slot \in Slots : params[slot].valid}
<1> USE DEF Slots, Params
<1>1. CASE valid = {}
  BY <1>1 DEF ActiveSlot
<1>2. CASE valid = Slots
  <2>1. params[0].valid /\ params[1].valid
    BY <1>2
  <2>2. ActiveSlot(params) = IF params[1].version > params[0].version THEN 1 ELSE 0
    BY <1>2 DEF ActiveSlot
  <2> QED
    BY <2>1, <2>2
<1>3. CASE valid # {} /\ valid # Slots
  <2>1. PICK slot \in Slots : valid = {slot}
    BY <1>3
  <2>2. ActiveSlot(params) = slot
    BY <1>3, <2>1 DEF ActiveSlot
  <2> QED
    BY <2>1, <2>2
<1> QED
  BY <1>1, <1>2, <1>3

\* Every variable keeps its type.
THEOREM Boot1TypeCorrect == Spec => []TypeOK
<1> USE Boot1Constants DEF TypeOK, card, timer, image, boot, Countdown, Loading, Sources, Flags
<1>1. Init => TypeOK
  BY DEF Init, CountdownInit, Garbage, Params
<1>2. TypeOK /\ [Next]_vars => TypeOK'
  <2> SUFFICES ASSUME TypeOK, [Next]_vars PROVE TypeOK'
    OBVIOUS
  <2>1. CASE Detect
    BY <2>1 DEF Detect
  <2>2. CASE ReadFlag
    BY <2>2 DEF ReadFlag
  <2>3. CASE ReadTime
    BY <2>3 DEF ReadTime
  <2>4. CASE CheckVersion
    <3>1. PICK params \in [Slots -> {eeprom[0], eeprom[1], boot1Params[0], boot1Params[1], Garbage}] :
                 /\ boot1Params' = params
                 /\ \/ UNCHANGED version
                    \/ /\ ActiveSlot(params) # -1
                       /\ version' = params[ActiveSlot(params)].version
      BY <2>4 DEF CheckVersion
    <3>2. params \in [Slots -> Params]
      <4>1. Garbage \in Params
        BY DEF Garbage, Params
      <4>2. {eeprom[0], eeprom[1], boot1Params[0], boot1Params[1]} \subseteq Params
        BY DEF Slots
      <4> QED
        BY <3>1, <4>1, <4>2
    <3>3. version' \in Nat
      BY <3>1, <3>2, ActiveSlotIsNewest DEF Params
    <3>4. pc' \in {"open", "failed"} /\ UNCHANGED <<card, timer, source, image, boot>>
      BY <2>4 DEF CheckVersion
    <3> QED
      BY <3>1, <3>2, <3>3, <3>4
  <2>5. CASE OpenImage
    BY <2>5 DEF OpenImage
  <2>6. CASE CheckHeader
    BY <2>6 DEF CheckHeader
  <2>7. CASE CopyBlock
    BY <2>7 DEF CopyBlock
  <2>8. CASE EndCopy
    BY <2>8 DEF EndCopy
  <2>9. CASE PreparePrshHax
    BY <2>9 DEF PreparePrshHax
  <2>10. CASE Reboot
    BY <2>10 DEF Reboot
  <2>11. CASE ChooseLoad
    BY <2>11 DEF ChooseLoad
  <2>12. CASE Dismiss
    BY <2>12 DEF Dismiss
  <2>13. CASE ChangeFlag
    BY <2>13 DEF ChangeFlag
  <2>14. CASE Tick
    BY <2>14 DEF Tick
  <2>15. CASE UNCHANGED vars
    BY <2>15 DEF vars
  <2> QED
    BY <2>1, <2>2, <2>3, <2>4, <2>5, <2>6, <2>7, <2>8, <2>9, <2>10, <2>11, <2>12, <2>13, <2>14, <2>15
    DEF Next, MenuStep, LoadStep, UserStep
<1> QED
  BY <1>1, <1>2, PTL DEF Spec

\* Each step of a load establishes what the next one relies on.
LEMMA BootInvStep == TypeOK /\ BootInv /\ [Next]_vars => BootInv'
<1> SUFFICES ASSUME TypeOK, BootInv, [Next]_vars PROVE BootInv'
  OBVIOUS
<1> USE Boot1Constants DEF BootInv, TypeOK, card, timer, image, boot, Sources
<1>1. CASE Detect
  BY <1>1 DEF Detect
<1>2. CASE ReadFlag
  BY <1>2 DEF ReadFlag
<1>3. CASE ReadTime
  BY <1>3 DEF ReadTime
<1>4. CASE CheckVersion
  BY <1>4 DEF CheckVersion
<1>5. CASE OpenImage
  BY <1>5 DEF OpenImage
<1>6. CASE CheckHeader
  BY <1>6 DEF CheckHeader
<1>7. CASE CopyBlock
  BY <1>7 DEF CopyBlock
<1>8. CASE EndCopy
  BY <1>8 DEF EndCopy
<1>9. CASE PreparePrshHax
  BY <1>9 DEF PreparePrshHax
<1>10. CASE Reboot
  BY <1>10 DEF Reboot
<1>11. CASE ChooseLoad
  BY <1>11 DEF ChooseLoad
<1>12. CASE Dismiss
  BY <1>12 DEF Dismiss
<1>13. CASE ChangeFlag
  BY <1>13 DEF ChangeFlag
<1>14. CASE Tick
  BY <1>14 DEF Tick
<1>15. CASE UNCHANGED vars
  BY <1>15 DEF vars
<1> QED
  BY <1>1, <1>2, <1>3, <1>4, <1>5, <1>6, <1>7, <1>8, <1>9, <1>10, <1>11, <1>12, <1>13, <1>14, <1>15
  DEF Next, MenuStep, LoadStep, UserStep

\* The console only reboots into an image that is whole, in the right place
\* and of a kind that boot1 will run, after any failed attempts.
THEOREM BootSafety == Spec => []BootWhole
<1>1. Init => BootInv
  BY DEF Init, BootInv
<1>2. TypeOK /\ BootInv /\ [Next]_vars => BootInv'
  BY BootInvStep
<1>3. BootInv => BootWhole
  BY DEF BootInv, BootWhole
<1> QED
  BY <1>1, <1>2, <1>3, Boot1TypeCorrect, PTL DEF Spec

\* Every error path gives back the file and the buffer it holds.
THEOREM HeldSafety == Spec => []NothingHeld
<1> USE DEF NothingHeld, card, timer, image, boot, Countdown
<1>1. Init => NothingHeld
  BY DEF Init
<1>2. NothingHeld /\ [Next]_vars => NothingHeld'
  <2> SUFFICES ASSUME NothingHeld, [Next]_vars PROVE NothingHeld'
    OBVIOUS
  <2>1. CASE Detect
    BY <2>1 DEF Detect
  <2>2. CASE ReadFlag
    BY <2>2 DEF ReadFlag
  <2>3. CASE ReadTime
    BY <2>3 DEF ReadTime
  <2>4. CASE CheckVersion
    BY <2>4 DEF CheckVersion
  <2>5. CASE OpenImage
    BY <2>5 DEF OpenImage
  <2>6. CASE CheckHeader
    BY <2>6 DEF CheckHeader
  <2>7. CASE CopyBlock
    BY <2>7 DEF CopyBlock
  <2>8. CASE EndCopy
    BY <2>8 DEF EndCopy
  <2>9. CASE PreparePrshHax
    BY <2>9 DEF PreparePrshHax
  <2>10. CASE Reboot
    BY <2>10 DEF Reboot
  <2>11. CASE ChooseLoad
    BY <2>11 DEF ChooseLoad
  <2>12. CASE Dismiss
    BY <2>12 DEF Dismiss
  <2>13. CASE ChangeFlag
    BY <2>13 DEF ChangeFlag
  <2>14. CASE Tick
    BY <2>14 DEF Tick
  <2>15. CASE UNCHANGED vars
    BY <2>15 DEF vars
  <2> QED
    BY <2>1, <2>2, <2>3, <2>4, <2>5, <2>6, <2>7, <2>8, <2>9, <2>10, <2>11, <2>12, <2>13, <2>14, <2>15
    DEF Next, MenuStep, LoadStep, UserStep
<1> QED
  BY <1>1, <1>2, PTL DEF Spec

\* If the SEEPROM was read, the version that is used is that of the boot1 that
\* will run, whatever earlier attempts left in memory.
THEOREM VersionSafety == Spec => []VersionIsActive
<1>1. Init => VersionIsActive
  BY DEF Init, VersionIsActive, Offset
<1>2. TypeOK /\ VersionIsActive /\ [Next]_vars => VersionIsActive'
  <2> SUFFICES ASSUME TypeOK, VersionIsActive, [Next]_vars PROVE VersionIsActive'
    OBVIOUS
  <2> USE DEF VersionIsActive, ActiveVersion, Offset, card, timer, image, boot
  <2>1. CASE Detect
    BY <2>1 DEF Detect
  <2>2. CASE ReadFlag
    BY <2>2 DEF ReadFlag
  <2>3. CASE ReadTime
    BY <2>3 DEF ReadTime
  <2>4. CASE CheckVersion
    <3> SUFFICES ASSUME pc' = "open", boot1Params' = eeprom PROVE VersionIsActive'
      BY <2>4 DEF CheckVersion
    <3>1. ActiveSlot(eeprom) # -1 /\ version' = eeprom[ActiveSlot(eeprom)].version /\ eeprom' = eeprom
      BY <2>4 DEF CheckVersion
    <3>2. eeprom \in [Slots -> Params]
      BY Boot1Constants DEF TypeOK
    <3> QED
      BY <3>1, <3>2, ActiveSlotIsNewest
  <2>5. CASE OpenImage
    BY <2>5 DEF OpenImage
  <2>6. CASE CheckHeader
    BY <2>6 DEF CheckHeader
  <2>7. CASE CopyBlock
    BY <2>7 DEF CopyBlock
  <2>8. CASE EndCopy
    BY <2>8 DEF EndCopy
  <2>9. CASE PreparePrshHax
    BY <2>9 DEF PreparePrshHax
  <2>10. CASE Reboot
    BY <2>10 DEF Reboot
  <2>11. CASE ChooseLoad
    BY <2>11 DEF ChooseLoad
  <2>12. CASE Dismiss
    BY <2>12 DEF Dismiss
  <2>13. CASE ChangeFlag
    BY <2>13 DEF ChangeFlag
  <2>14. CASE Tick
    BY <2>14 DEF Tick
  <2>15. CASE UNCHANGED vars
    BY <2>15 DEF vars
  <2> QED
    BY <2>1, <2>2, <2>3, <2>4, <2>5, <2>6, <2>7, <2>8, <2>9, <2>10, <2>11, <2>12, <2>13, <2>14, <2>15
    DEF Next, MenuStep, LoadStep, UserStep
<1> QED
  BY <1>1, <1>2, Boot1TypeCorrect, PTL DEF Spec
-----------------------------------------------------------------------------

\* Why HeldButtonCancels holds: the countdown has never let a pressed button
\* pass, so that one that is held differs from cur_flag at the next poll, and
\* at most one second is drawn before that poll.
CancelInv ==
    /\ HeldButtonCancels
    /\ pc \in {"start"} \cup Countdown =>
          /\ ~Pressed(curFlag)
          /\ lastDraw <= elapsed /\ elapsed <= lastDraw + 1
          /\ Pressed(flag) => lastDraw <= heldSince + 1
          /\ Pressed(flag) /\ pc = "time" => lastDraw <= heldSince

\* A button that is held during the countdown cancels it within two seconds,
\* for any timeout, any other flags and whenever it is pressed.
THEOREM CancelSafety == Spec => []HeldButtonCancels
<1> USE DEF CancelInv, HeldButtonCancels, card, timer, image, boot, Countdown, Loading
<1>1. Init => CancelInv
  BY DEF Init, CountdownInit, Pressed
<1>2. TypeOK /\ CancelInv /\ [Next]_vars => CancelInv'
  <2> SUFFICES ASSUME TypeOK, CancelInv, [Next]_vars PROVE CancelInv'
    OBVIOUS
  <2>0. elapsed \in Nat /\ heldSince \in Nat /\ lastDraw \in Int
    BY DEF TypeOK
  <2>1. CASE Detect
    BY <2>0, <2>1 DEF Detect, Pressed
  <2>2. CASE ReadFlag
    BY <2>0, <2>2 DEF ReadFlag, Pressed
  <2>3. CASE ReadTime
    BY <2>0, <2>3 DEF ReadTime, Pressed
  <2>4. CASE CheckVersion
    BY <2>4 DEF CheckVersion, Pressed
  <2>5. CASE OpenImage
    BY <2>5 DEF OpenImage, Pressed
  <2>6. CASE CheckHeader
    BY <2>6 DEF CheckHeader, Pressed
  <2>7. CASE CopyBlock
    BY <2>7 DEF CopyBlock, Pressed
  <2>8. CASE EndCopy
    BY <2>8 DEF EndCopy, Pressed
  <2>9. CASE PreparePrshHax
    BY <2>9 DEF PreparePrshHax, Pressed
  <2>10. CASE Reboot
    BY <2>10 DEF Reboot, Pressed
  <2>11. CASE ChooseLoad
    BY <2>11 DEF ChooseLoad
  <2>12. CASE Dismiss
    BY <2>12 DEF Dismiss
  <2>13. CASE ChangeFlag
    BY <2>0, <2>13 DEF ChangeFlag, Pressed
  <2>14. CASE Tick
    BY <2>0, <2>14 DEF Tick, Pressed
  <2>15. CASE UNCHANGED vars
    BY <2>15 DEF vars, Pressed
  <2> QED
    BY <2>1, <2>2, <2>3, <2>4, <2>5, <2>6, <2>7, <2>8, <2>9, <2>10, <2>11, <2>12, <2>13, <2>14, <2>15
    DEF Next, MenuStep, LoadStep, UserStep
<1>3. CancelInv => HeldButtonCancels
  OBVIOUS
<1> QED
  BY <1>1, <1>2, <1>3, Boot1TypeCorrect, PTL DEF Spec
=============================================================================
