-------------------------- MODULE BoardProcs_proofs --------------------------
(***************************************************************************)
(* What the signals and the shared memories of hw1 guarantee for every     *)
(* number of messages, modes and naps in a tick.                           *)
(***************************************************************************)
EXTENDS BoardProcs, TLAPS

USE BoardAssumption

------------------------------------------------------------------------------
(***************************************************************************)
(* The inductive invariant                                                 *)
(***************************************************************************)

One(b) == IF b THEN 1 ELSE 0

\* What can still make main read the present message: the copy and the kill,
\* the signal, the flag and the read itself.  Each hands on to the next, and
\* none is there twice.
ToCome ==
    One(in_pc \in {"copying", "kill"}) + One(pend1) + One(signal_send) + One(main_pc = "read")

ReadsInv == reads + ToCome <= 4

\* The end goes from the input process through main to the output process, and
\* nothing is written behind it.
EndInv ==
    /\ shm_in.old # "end"
    /\ shm_in.new = "end" => in_pc \in {"copying", "kill", "exit"}
    /\ job = "end" <=> next_pc = "exit"
    /\ job = "end" => shm_in.new = "end" /\ main_pc \in {"copying", "notify", "killed"}
    /\ main_pc = "exit" => shm_in.new = "end"
    /\ shm_out = "end" =>
          main_pc \in {"exit", "killed"} \/ (main_pc = "notify" /\ job = "end")
    /\ out_pc \in {"fini", "exit"} => shm_out = "end"

\* A job that was read half has its signal still to come.
OutInv ==
    /\ shm_out = "torn" => main_pc \in {"copying", "killed"}
    /\ out_pc = "fini" => fresh
    /\ OutputNotMissed

\* Up to its first signal() main has read nothing, and only there it is killed.
BootInv ==
    /\ ~usr1 => /\ main_pc \in {"boot", "copying", "notify", "install", "killed"}
                /\ next_pc = "install" /\ processed = 0
    /\ main_pc = "killed" => ~usr1

IInv == TypeOK /\ InputNotMissed /\ ReadsInv /\ EndInv /\ OutInv /\ BootInv

LEMMA InitInv == Init => IInv
<1> SUFFICES ASSUME Init PROVE IInv
  OBVIOUS
<1> USE DEF Init
<1>1. TypeOK
  <2>1. shm_in \in [new : Messages \cup {"none"}, old : Messages \cup {"none"}]
    OBVIOUS
  <2>2. mod \in 0 .. ModNum - 1 /\ time_cnt \in 0 .. TickLen - 1
        /\ sent \in 0 .. MaxSends /\ processed \in 0 .. MaxSends /\ reads \in Nat
    OBVIOUS
  <2> QED BY <2>1, <2>2, Zenon DEF TypeOK
<1>2. InputNotMissed /\ ReadsInv
  BY DEF InputNotMissed, ReadsInv, ToCome, One
<1>3. EndInv /\ OutInv /\ BootInv
  BY DEF EndInv, OutInv, OutputNotMissed, BootInv
<1> QED BY <1>1, <1>2, <1>3 DEF IInv

------------------------------------------------------------------------------
(***************************************************************************)
(* Each part is preserved by every step                                    *)
(***************************************************************************)

\* The flags among the variables, apart from the rest for the provers.
Flags ==
    /\ pend1 \in BOOLEAN /\ usr1 \in BOOLEAN /\ signal_send \in BOOLEAN
    /\ pend2 \in BOOLEAN /\ fresh \in BOOLEAN /\ lost \in BOOLEAN

LEMMA TypeStep == TypeOK /\ [Next]_vars => TypeOK'
<1> SUFFICES ASSUME TypeOK, [Next]_vars PROVE TypeOK'
  OBVIOUS
<1> USE DEF TypeOK, input, main
<1>1. CASE InBoot
  BY <1>1 DEF InBoot
<1>2. ASSUME NEW m \in Messages, InWrite(m) PROVE TypeOK'
  BY <1>2 DEF InWrite
<1>3. CASE InWritten
  <2>1. shm_in' \in [new : Messages \cup {"none"}, old : Messages \cup {"none"}]
    BY <1>3 DEF InWritten
  <2> QED BY <1>3, <2>1 DEF InWritten
<1>4. CASE InKill
  BY <1>4 DEF InKill, MainAlive
<1>5. CASE MainBoot
  BY <1>5 DEF MainBoot, Send
<1>6. CASE MainWritten
  BY <1>6 DEF MainWritten
<1>7. CASE MainNotify
  BY <1>7 DEF MainNotify, OutAlive
<1>8. CASE MainInstall
  BY <1>8 DEF MainInstall
<1>9. CASE MainTest
  <2>1. main_pc' \in {"read", "sleep"} /\ signal_send' = FALSE
    BY <1>9 DEF MainTest
  <2>2. UNCHANGED <<input, mod, time_cnt, job, next_pc, shm_out, out_pc,
                    sent, processed, reads>>
    BY <1>9 DEF MainTest
  <2>3. Flags'
    BY <1>9, Zenon DEF MainTest, Flags
  <2> QED BY <2>1, <2>2, <2>3 DEF Flags
<1>10. CASE MainRead
  <2>1. PICK buf \in Readable :
          /\ IF buf = "end" THEN Send("end", "exit")
             ELSE IF buf = "none" THEN NoJob("sleep")
             ELSE Send("text", "sleep") \/ NoJob("sleep")
          /\ mod' = IF buf = "up" THEN (mod + 1) % ModNum
                    ELSE IF buf = "down" THEN PreviousMod ELSE mod
          /\ time_cnt' = IF buf \in {"up", "down", "other"} THEN 0 ELSE time_cnt
    BY <1>10 DEF MainRead
  <2>2. mod' \in 0 .. ModNum - 1 /\ time_cnt' \in 0 .. TickLen - 1
    BY <2>1 DEF PreviousMod
  <2>3. /\ main_pc' \in {"copying", "sleep"} /\ job' \in {"text", "end"}
        /\ next_pc' \in {"install", "sleep", "exit"}
        /\ shm_out' \in {"none", "torn", "text", "end"}
        /\ fresh' \in BOOLEAN /\ lost' \in BOOLEAN
    BY <2>1 DEF Send, NoJob
  <2>4. processed' \in 0 .. MaxSends /\ reads' \in Nat /\ signal_send' \in BOOLEAN
    BY <1>10 DEF MainRead
  <2> QED BY <1>10, <2>2, <2>3, <2>4 DEF MainRead
<1>11. CASE MainSleep
  <2>1. time_cnt' \in 0 .. TickLen - 1
    BY <1>11 DEF MainSleep
  <2>2. /\ main_pc' \in {"copying", "install"} /\ job' \in {"text", "end"}
        /\ next_pc' \in {"install", "sleep", "exit"}
        /\ shm_out' \in {"none", "torn", "text", "end"}
        /\ fresh' \in BOOLEAN /\ lost' \in BOOLEAN
    BY <1>11 DEF MainSleep, Send, NoJob
  <2> QED BY <1>11, <2>1, <2>2 DEF MainSleep
<1>12. CASE OutStep
  <2>1. /\ out_pc' \in {"ready", "suspended", "fini", "show", "exit", "killed"}
        /\ fresh' \in BOOLEAN
    BY <1>12 DEF OutStep, OutInstall, OutSuspend, OutRead, OutFini, OutFails, OutGoto
  <2>2. UNCHANGED <<input, pend1, main, signal_send, shm_out, pend2,
                    sent, processed, reads, lost>>
    BY <1>12 DEF OutStep, OutInstall, OutSuspend, OutRead, OutFini, OutFails
  <2> QED BY <2>1, <2>2
<1>13. CASE Deliver1
  <2>1. main_pc' = main_pc \/ main_pc' = "killed"
    BY <1>13 DEF Deliver1, Handler, MainKilled
  <2>2. UNCHANGED <<input, mod, time_cnt, job, next_pc, shm_out, out_pc,
                    sent, processed, reads>>
    BY <1>13 DEF Deliver1, Handler, MainKilled
  <2>3. Flags'
    BY <1>13, Zenon DEF Deliver1, Handler, MainKilled, Flags
  <2> QED BY <2>1, <2>2, <2>3 DEF Flags
<1>14. CASE Deliver2
  <2>1. out_pc' = out_pc \/ out_pc' \in {"read", "killed"}
    BY <1>14 DEF Deliver2, OutWake, OutIgnore, OutKilled, OutGoto
  <2>2. UNCHANGED <<input, main_pc, mod, time_cnt, job, next_pc, shm_out,
                    sent, processed, reads>>
    BY <1>14 DEF Deliver2, OutWake, OutIgnore, OutKilled
  <2>3. lost' \in BOOLEAN
    BY <1>14 DEF Deliver2, OutWake, OutIgnore, OutKilled
  <2>4. Flags'
    BY <1>14, <2>3, Zenon DEF Deliver2, OutWake, OutIgnore, OutKilled, Flags
  <2> QED BY <2>1, <2>2, <2>4 DEF Flags
<1>15. CASE UNCHANGED vars
  BY <1>15 DEF vars
<1> QED BY <1>1, <1>2, <1>3, <1>4, <1>5, <1>6, <1>7, <1>8, <1>9, <1>10,
          <1>11, <1>12, <1>13, <1>14, <1>15 DEF Next, MainStep

\* The copy hands over to the kill, the kill to the pending signal, the signal
\* to the flag and the flag to the read.
LEMMA MissedStep == IInv /\ [Next]_vars => InputNotMissed'
<1> SUFFICES ASSUME TypeOK, InputNotMissed, [Next]_vars PROVE InputNotMissed'
  BY DEF IInv
<1> USE DEF TypeOK, InputNotMissed, MainAlive, input, main
<1>1. ASSUME InBoot \/ InWritten \/ InKill \/ \E m \in Messages : InWrite(m)
      PROVE  InputNotMissed'
  BY <1>1 DEF InBoot, InWritten, InKill, InWrite
<1>2. ASSUME MainBoot \/ MainWritten \/ MainNotify \/ MainInstall \/ MainSleep
      PROVE  InputNotMissed'
  BY <1>2 DEF MainBoot, MainWritten, MainNotify, MainInstall, MainSleep, Send, NoJob
<1>3. CASE MainTest
  BY <1>3 DEF MainTest
<1>4. CASE MainRead
  <2>1. processed' = IF in_pc = "copying" THEN processed ELSE sent
    BY <1>4 DEF MainRead
  <2>2. UNCHANGED <<in_pc, sent>>
    BY <1>4 DEF MainRead
  <2> QED BY <2>1, <2>2
<1>5. CASE OutStep
  BY <1>5 DEF OutStep, OutInstall, OutSuspend, OutRead, OutFini, OutFails
<1>6. CASE Deliver1
  BY <1>6 DEF Deliver1, Handler, MainKilled
<1>7. CASE Deliver2
  BY <1>7 DEF Deliver2, OutWake, OutIgnore, OutKilled
<1>8. CASE UNCHANGED vars
  BY <1>8 DEF vars
<1> QED BY <1>1, <1>2, <1>3, <1>4, <1>5, <1>6, <1>7, <1>8 DEF Next, MainStep

\* A read takes one from what is to come, and nothing adds to it but a new
\* message, which begins at no reads.
LEMMA ReadsStep == IInv /\ [Next]_vars => ReadsInv'
<1> SUFFICES ASSUME TypeOK, ReadsInv, [Next]_vars PROVE ReadsInv'
  BY DEF IInv
<1> USE DEF TypeOK, ReadsInv, ToCome, One, input, main
<1>1. ASSUME NEW m \in Messages, InWrite(m) PROVE ReadsInv'
  BY <1>1 DEF InWrite
<1>2. ASSUME InBoot \/ InWritten \/ InKill PROVE ReadsInv'
  BY <1>2 DEF InBoot, InWritten, InKill, MainAlive
<1>3. ASSUME MainBoot \/ MainWritten \/ MainNotify \/ MainInstall \/ MainSleep
      PROVE  ReadsInv'
  <2>1. main_pc' # "read"
    BY <1>3 DEF MainBoot, MainWritten, MainNotify, MainInstall, MainSleep, Send, NoJob
  <2>2. UNCHANGED <<in_pc, pend1, signal_send, reads>>
    BY <1>3 DEF MainBoot, MainWritten, MainNotify, MainInstall, MainSleep
  <2> QED BY <2>1, <2>2
<1>4. CASE MainTest
  BY <1>4 DEF MainTest
<1>5. CASE MainRead
  <2>1. main_pc = "read" /\ main_pc' # "read" /\ reads' = reads + 1
    BY <1>5 DEF MainRead, Send, NoJob
  <2>2. UNCHANGED <<in_pc, pend1, signal_send>>
    BY <1>5 DEF MainRead
  <2> QED BY <2>1, <2>2
<1>6. CASE OutStep
  BY <1>6 DEF OutStep, OutInstall, OutSuspend, OutRead, OutFini, OutFails
<1>7. CASE Deliver1
  BY <1>7 DEF Deliver1, Handler, MainKilled
<1>8. CASE Deliver2
  <2>1. UNCHANGED <<in_pc, pend1, signal_send, main_pc, reads>>
    BY <1>8 DEF Deliver2, OutWake, OutIgnore, OutKilled
  <2> QED BY <2>1
<1>9. CASE UNCHANGED vars
  BY <1>9 DEF vars
<1> QED BY <1>1, <1>2, <1>3, <1>4, <1>5, <1>6, <1>7, <1>8, <1>9 DEF Next, MainStep

------------------------------------------------------------------------------

LEMMA EndStep == IInv /\ [Next]_vars => EndInv'
<1> SUFFICES ASSUME TypeOK, EndInv, [Next]_vars PROVE EndInv'
  BY DEF IInv
<1> USE DEF EndInv, input, main
<1>1. ASSUME NEW m \in Messages, InWrite(m) PROVE EndInv'
  BY <1>1 DEF InWrite, TypeOK
<1>2. CASE InWritten
  <2>1. shm_in'.new = shm_in.new /\ shm_in'.old = "none"
    BY <1>2 DEF InWritten, TypeOK
  <2> QED BY <1>2, <2>1 DEF InWritten
<1>3. ASSUME InBoot \/ InKill PROVE EndInv'
  BY <1>3 DEF InBoot, InKill
<1>4. ASSUME MainBoot \/ MainInstall \/ MainTest \/ MainSleep PROVE EndInv'
  BY <1>4 DEF MainBoot, MainInstall, MainTest, MainSleep, Send, NoJob
<1>5. CASE MainWritten
  BY <1>5 DEF MainWritten, TypeOK
<1>6. CASE MainNotify
  BY <1>6 DEF MainNotify, TypeOK
<1>7. CASE MainRead
  <2>1. PICK buf \in Readable :
          IF buf = "end" THEN Send("end", "exit")
          ELSE IF buf = "none" THEN NoJob("sleep")
          ELSE Send("text", "sleep") \/ NoJob("sleep")
    BY <1>7 DEF MainRead
  <2>2. buf = "end" => shm_in.new = "end"
    BY DEF Readable
  <2>3. UNCHANGED <<in_pc, shm_in, out_pc>> /\ main_pc = "read"
    BY <1>7 DEF MainRead
  <2> QED BY <2>1, <2>2, <2>3 DEF Send, NoJob
<1>8. CASE OutStep
  BY <1>8 DEF OutStep, OutInstall, OutSuspend, OutRead, OutFini, OutFails, OutGoto, IsEnd
<1>9. CASE Deliver1
  BY <1>9 DEF Deliver1, Handler, MainKilled, MainAlive
<1>10. CASE Deliver2
  BY <1>10 DEF Deliver2, OutWake, OutIgnore, OutKilled, OutGoto
<1>11. CASE UNCHANGED vars
  BY <1>11 DEF vars
<1> QED BY <1>1, <1>2, <1>3, <1>4, <1>5, <1>6, <1>7, <1>8, <1>9, <1>10, <1>11
        DEF Next, MainStep

LEMMA OutputStep == IInv /\ [Next]_vars => OutInv'
<1> SUFFICES ASSUME TypeOK, EndInv, OutInv, [Next]_vars PROVE OutInv'
  BY DEF IInv
<1> USE DEF OutInv, OutputNotMissed, OutAlive, input, main
<1>1. ASSUME InBoot \/ InWritten \/ InKill \/ \E m \in Messages : InWrite(m) PROVE OutInv'
  BY <1>1 DEF InBoot, InWritten, InKill, InWrite
<1>2. ASSUME MainBoot \/ MainRead \/ MainSleep PROVE OutInv'
  BY <1>2 DEF MainBoot, MainRead, MainSleep, Send, NoJob, EndInv
<1>3. ASSUME MainInstall \/ MainTest PROVE OutInv'
  BY <1>3 DEF MainInstall, MainTest
<1>4. CASE MainWritten
  BY <1>4 DEF MainWritten, TypeOK
<1>5. CASE MainNotify
  BY <1>5 DEF MainNotify
<1>6. ASSUME OutInstall \/ OutSuspend \/ OutFini \/ OutFails PROVE OutInv'
  BY <1>6 DEF OutInstall, OutSuspend, OutFini, OutFails, OutGoto
<1>7. CASE OutRead
  BY <1>7 DEF OutRead, OutGoto, IsEnd
<1>8. CASE Deliver1
  BY <1>8 DEF Deliver1, Handler, MainKilled
<1>9. CASE OutWake
  BY <1>9 DEF OutWake, OutGoto
<1>10. CASE OutIgnore
  BY <1>10 DEF OutIgnore
<1>11. CASE OutKilled
  BY <1>11 DEF OutKilled, OutGoto
<1>12. CASE UNCHANGED vars
  BY <1>12 DEF vars
<1> QED BY <1>1, <1>2, <1>3, <1>4, <1>5, <1>6, <1>7, <1>8, <1>9, <1>10, <1>11, <1>12
        DEF Next, MainStep, OutStep, Deliver2

\* Main goes from its boot to the first signal() without a read.
LEMMA BootStep == IInv /\ [Next]_vars => BootInv'
<1> SUFFICES ASSUME IInv, BootInv, [Next]_vars PROVE BootInv'
  BY DEF IInv
<1> USE DEF BootInv, input, main
<1>0. usr1 \in BOOLEAN
  BY DEF IInv, TypeOK
<1>1. ASSUME InBoot \/ InWritten \/ InKill \/ \E m \in Messages : InWrite(m) PROVE BootInv'
  BY <1>1 DEF InBoot, InWritten, InKill, InWrite
<1>2. ASSUME MainBoot \/ MainSleep PROVE BootInv'
  BY <1>2 DEF MainBoot, MainSleep, Send, NoJob
<1>3. ASSUME MainWritten \/ MainNotify PROVE BootInv'
  BY <1>3 DEF MainWritten, MainNotify, IInv, TypeOK
<1>4. ASSUME MainInstall \/ MainTest PROVE BootInv'
  <2>1. /\ main_pc \in {"install", "test"} /\ main_pc' \in {"test", "read", "sleep"}
        /\ main_pc = "install" => usr1' = TRUE
        /\ main_pc = "test" => usr1' = usr1
    BY <1>4 DEF MainInstall, MainTest
  <2>2. usr1'
    BY <1>0, <2>1
  <2>3. main_pc' # "killed"
    BY <2>1
  <2> QED BY <2>2, <2>3, Zenon
<1>5. CASE MainRead
  <2>1. main_pc = "read" /\ main_pc' # "killed" /\ usr1' = usr1
    BY <1>5 DEF MainRead, Send, NoJob
  <2> QED BY <2>1
<1>6. CASE OutStep
  BY <1>6 DEF OutStep, OutInstall, OutSuspend, OutRead, OutFini, OutFails
<1>7. CASE Deliver1
  <2>1. CASE Handler
    BY <2>1 DEF Handler
  <2>2. CASE MainKilled
    <3>1. ~usr1 /\ usr1' = usr1 /\ main_pc' = "killed"
      BY <2>2, Zenon DEF MainKilled
    <3>2. next_pc' = next_pc /\ processed' = processed
      BY <2>2 DEF MainKilled
    <3>3. next_pc' = "install" /\ processed' = 0
      BY <3>1, <3>2
    <3>4. ~usr1'
      BY <3>1, Zenon
    <3> QED BY <3>1, <3>3, <3>4
  <2> QED BY <1>7, <2>1, <2>2 DEF Deliver1
<1>8. CASE Deliver2
  <2>1. UNCHANGED <<main_pc, usr1, next_pc, processed>>
    BY <1>8, Zenon DEF Deliver2, OutWake, OutIgnore, OutKilled
  <2> QED BY <2>1
<1>9. CASE UNCHANGED vars
  BY <1>9 DEF vars
<1> QED BY <1>1, <1>2, <1>3, <1>4, <1>5, <1>6, <1>7, <1>8, <1>9 DEF Next, MainStep

LEMMA InvStep == IInv /\ [Next]_vars => IInv'
BY TypeStep, MissedStep, ReadsStep, EndStep, OutputStep, BootStep DEF IInv

LEMMA Invariant == Spec => []IInv
BY InitInv, InvStep, PTL DEF Spec

------------------------------------------------------------------------------
(***************************************************************************)
(* The theorems                                                            *)
(***************************************************************************)

\* Every variable keeps its type; vol_dn never makes mod negative.
THEOREM TypeCorrect == Spec => []TypeOK
<1>1. IInv => TypeOK
  BY DEF IInv
<1> QED BY <1>1, Invariant, PTL

\* For every number of messages the last one is read in full or main will read
\* again: clearing signal_send before the strcpy (main.c) loses nothing.
THEOREM InputIsNotMissed == Spec => []InputNotMissed
<1>1. IInv => InputNotMissed
  BY DEF IInv
<1> QED BY <1>1, Invariant, PTL

\* One message is never acted on more than four times.
THEOREM ReadsAreBounded == Spec => []ReadsBounded
<1>1. IInv => ReadsBounded
  BY DEF IInv, TypeOK, ReadsInv, ToCome, One, ReadsBounded
<1> QED BY <1>1, Invariant, PTL

\* The processes end in the order input, main, output, and SIGUSR1 kills main
\* only before its first signal().
THEOREM ProcessesEndInOrder == Spec => []EndsInOrder
<1>1. IInv => EndsInOrder
  BY DEF IInv, EndInv, BootInv, EndsInOrder
<1> QED BY <1>1, Invariant, PTL

\* The output process misses a job only when its SIGUSR2 falls between the
\* sigset and the sigsuspend of out_proc.c, or before them while it is busy.
THEOREM OutputIsNotMissed == Spec => []OutputNotMissed
<1>1. IInv => OutputNotMissed
  BY DEF IInv, OutInv
<1> QED BY <1>1, Invariant, PTL
==============================================================================
