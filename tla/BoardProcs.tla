----------------------------- MODULE BoardProcs -----------------------------
(***************************************************************************)
(* The three processes of hw1 and how they talk: main.c, in_proc.c and     *)
(* out_proc.c.  The input process writes one message into a shared memory  *)
(* and sends SIGUSR1 to main; main turns it, or the passing of time, into  *)
(* a job for the output process, writes that into a second shared memory   *)
(* and sends SIGUSR2.  There is one slot in each direction, no lock, and a *)
(* signal that is already pending is not queued a second time.  What a     *)
(* mode computes (processing()) is only seen by its result: whether there  *)
(* is a job for the output process.                                        *)
(***************************************************************************)
EXTENDS Integers

CONSTANTS
    MaxSends,   \* bound on the messages the input process sends
    ModNum,     \* MOD_NUM, 5
    TickLen     \* 20 naps of 50 ms make a tick

ASSUME BoardAssumption ==
    /\ MaxSends \in Nat
    /\ ModNum \in Nat \ {0}
    /\ TickLen \in Nat \ {0}

VARIABLES
    \* The input process and its way to main
    in_pc,        \* boot | poll | copying | kill | exit
    shm_in,       \* the message written last, and what a strcpy is overwriting
    pend1,        \* SIGUSR1 is pending for main
    \* The main process
    main_pc,      \* boot | copying | notify | install | test | read | sleep |
                  \* exit | killed
    usr1,         \* signal(SIGUSR1, handler) has been called
    signal_send,  \* signal_send
    mod,          \* mod
    time_cnt,     \* time_cnt
    job,          \* text | end: what is being sent to the output process
    next_pc,      \* where main goes on after it has sent a job
    \* The output process
    shm_out,      \* none | torn | text | end
    pend2,        \* SIGUSR2 is pending for the output process
    out_pc,       \* boot | ready | suspended | read | show | fini | exit | killed
    \* History, read by the properties only:
    sent,         \* messages the input process has begun to write
    processed,    \* the last of them main has read in full
    reads,        \* how often main has read the present message
    fresh,        \* the output process has read the last job in full
    lost          \* a SIGUSR2 for that job was taken by the empty handler

input == <<in_pc, shm_in>>
main == <<main_pc, usr1, mod, time_cnt, job, next_pc>>
vars == <<input, pend1, main, signal_send, shm_out, pend2, out_pc,
          sent, processed, reads, fresh, lost>>

\* A message: a volume key, another key, push buttons, or the end.
Messages == {"up", "down", "other", "push", "end"}

Init ==
    /\ in_pc = "boot" /\ shm_in = [new |-> "none", old |-> "none"] /\ pend1 = FALSE
    /\ main_pc = "boot" /\ usr1 = FALSE /\ signal_send = FALSE
    /\ mod = 0 /\ time_cnt = 0 /\ job = "text" /\ next_pc = "install"
    /\ shm_out = "none" /\ pend2 = FALSE /\ out_pc = "boot"
    /\ sent = 0 /\ processed = 0 /\ reads = 0 /\ fresh = TRUE /\ lost = FALSE

------------------------------------------------------------------------------
(***************************************************************************)
(* input_main                                                              *)
(***************************************************************************)

\* The two devices open, or the process exits without a word to main.
InBoot ==
    /\ in_pc = "boot"
    /\ in_pc' \in {"poll", "exit"}
    /\ UNCHANGED <<shm_in, pend1, main, signal_send, shm_out, pend2, out_pc,
                   sent, processed, reads, fresh, lost>>

\* A key or a push button goes down: strcpy into the shared memory begins.
InWrite(m) ==
    /\ in_pc = "poll" /\ sent < MaxSends
    /\ in_pc' = "copying"
    /\ shm_in' = [new |-> m, old |-> shm_in.new]
    /\ sent' = sent + 1 /\ reads' = 0
    /\ UNCHANGED <<pend1, main, signal_send, shm_out, pend2, out_pc,
                   processed, fresh, lost>>

\* The strcpy is complete, nothing is left of the message before.
InWritten ==
    /\ in_pc = "copying"
    /\ in_pc' = "kill"
    /\ shm_in' = [shm_in EXCEPT !.old = "none"]
    /\ UNCHANGED <<pend1, main, signal_send, shm_out, pend2, out_pc,
                   sent, processed, reads, fresh, lost>>

MainAlive == main_pc \notin {"exit", "killed"}

\* Mutant: no signal for the end.
SilentEnd ==
    /\ in_pc = "kill"
    /\ in_pc' = IF shm_in.new = "end" THEN "exit" ELSE "poll"
    /\ pend1' = IF shm_in.new = "end" THEN pend1 ELSE MainAlive
    /\ UNCHANGED <<shm_in, main, signal_send, shm_out, pend2, out_pc,
                   sent, processed, reads, fresh, lost>>

\* kill(pid_parent, SIGUSR1); the back key ends the loop.
InKill ==
    /\ in_pc = "kill"
    /\ in_pc' = IF shm_in.new = "end" THEN "exit" ELSE "poll"
    /\ pend1' = MainAlive
    /\ UNCHANGED <<shm_in, main, signal_send, shm_out, pend2, out_pc,
                   sent, processed, reads, fresh, lost>>

------------------------------------------------------------------------------
(***************************************************************************)
(* main                                                                    *)
(***************************************************************************)

\* handler(SIGUSR1).
Handler ==
    /\ pend1 /\ MainAlive /\ usr1
    /\ pend1' = FALSE
    /\ signal_send' = TRUE
    /\ UNCHANGED <<input, main, shm_out, pend2, out_pc,
                   sent, processed, reads, fresh, lost>>

\* Before the first signal() the default action of SIGUSR1 ends main.
MainKilled ==
    /\ pend1 /\ MainAlive /\ ~usr1
    /\ pend1' = FALSE
    /\ main_pc' = "killed"
    /\ UNCHANGED <<input, usr1, mod, time_cnt, job, next_pc, signal_send, shm_out,
                   pend2, out_pc, sent, processed, reads, fresh, lost>>

\* strcpy(shmaddr_out, ...) begins, and main will go on at pc.
Send(what, pc) ==
    /\ main_pc' = "copying"
    /\ job' = what /\ next_pc' = pc
    /\ shm_out' = "torn"
    /\ fresh' = FALSE /\ lost' = FALSE

\* processing() returned 0: nothing is sent.
NoJob(pc) ==
    /\ main_pc' = pc
    /\ UNCHANGED <<job, next_pc, shm_out, fresh, lost>>

\* The first processing() call sets up the clock, which always has a job.
MainBoot ==
    /\ main_pc = "boot"
    /\ Send("text", "install")
    /\ UNCHANGED <<input, pend1, usr1, mod, time_cnt, signal_send, pend2, out_pc,
                   sent, processed, reads>>

MainWritten ==
    /\ main_pc = "copying"
    /\ main_pc' = "notify"
    /\ shm_out' = job
    /\ UNCHANGED <<input, pend1, usr1, mod, time_cnt, job, next_pc, signal_send,
                   pend2, out_pc, sent, processed, reads, fresh, lost>>

OutAlive == out_pc \notin {"exit", "killed"}

\* Mutant: the kill is missing.
NotifyNobody ==
    /\ main_pc = "notify"
    /\ main_pc' = next_pc
    /\ job' = "text" /\ next_pc' = "install"
    /\ UNCHANGED <<input, pend1, usr1, mod, time_cnt, signal_send, shm_out, pend2,
                   out_pc, sent, processed, reads, fresh, lost>>

\* kill(pid_out, SIGUSR2), and back to where the job came from.
MainNotify ==
    /\ main_pc = "notify"
    /\ main_pc' = next_pc
    /\ pend2' = OutAlive
    /\ job' = "text" /\ next_pc' = "install"
    /\ UNCHANGED <<input, pend1, usr1, mod, time_cnt, signal_send, shm_out,
                   out_pc, sent, processed, reads, fresh, lost>>

\* Mutant: starts every round with a cleared flag.
InstallClears ==
    /\ main_pc = "install"
    /\ main_pc' = "test"
    /\ usr1' = TRUE /\ signal_send' = FALSE
    /\ UNCHANGED <<input, pend1, mod, time_cnt, job, next_pc, shm_out,
                   pend2, out_pc, sent, processed, reads, fresh, lost>>

\* The top of the loop: signal(SIGUSR1, handler).
MainInstall ==
    /\ main_pc = "install"
    /\ main_pc' = "test"
    /\ usr1' = TRUE
    /\ UNCHANGED <<input, pend1, mod, time_cnt, job, next_pc, signal_send, shm_out,
                   pend2, out_pc, sent, processed, reads, fresh, lost>>

\* Mutant: the flag is never cleared.
TestKeepsFlag ==
    /\ main_pc = "test"
    /\ main_pc' = IF signal_send THEN "read" ELSE "sleep"
    /\ UNCHANGED <<input, pend1, usr1, signal_send, mod, time_cnt, job, next_pc, shm_out,
                   pend2, out_pc, sent, processed, reads, fresh, lost>>

\* if(signal_send){ signal_send = 0; ...
MainTest ==
    /\ main_pc = "test"
    /\ main_pc' = IF signal_send THEN "read" ELSE "sleep"
    /\ signal_send' = FALSE
    /\ UNCHANGED <<input, pend1, usr1, mod, time_cnt, job, next_pc, shm_out, pend2,
                   out_pc, sent, processed, reads, fresh, lost>>

\* What strcpy(buf, shmaddr_in) can bring back while the input process copies:
\* the message before, the new one, a key code made of both, or nothing that
\* main recognises.  (The end is not among the mixtures: it needs its NUL.)
Readable ==
    IF in_pc = "copying" THEN {shm_in.new, shm_in.old, "other", "none"}
    ELSE {shm_in.new}

\* Mutant: vol_dn without + MOD_NUM; C's remainder is negative below 0.
NegativeMod == mod - 1
PreviousMod == (mod + ModNum - 1) % ModNum

\* ... strcpy(buf, shmaddr_in) and the branches on it, up to the sending of the
\* job that processing() has or has not returned.
MainRead ==
    /\ main_pc = "read"
    /\ processed' = IF in_pc = "copying" THEN processed ELSE sent
    /\ reads' = reads + 1
    /\ \E buf \in Readable :
          /\ IF buf = "end" THEN Send("end", "exit")
             ELSE IF buf = "none" THEN NoJob("sleep")
             ELSE Send("text", "sleep") \/ NoJob("sleep")
          /\ mod' = IF buf = "up" THEN (mod + 1) % ModNum
                    ELSE IF buf = "down" THEN PreviousMod ELSE mod
          /\ time_cnt' = IF buf \in {"up", "down", "other"} THEN 0 ELSE time_cnt
    /\ UNCHANGED <<input, pend1, usr1, signal_send, pend2, out_pc, sent>>

\* usleep(50000), and every TickLen-th time processing() for the clock.
MainSleep ==
    /\ main_pc = "sleep"
    /\ IF time_cnt + 1 = TickLen
       THEN /\ time_cnt' = 0
            /\ Send("text", "install") \/ NoJob("install")
       ELSE /\ time_cnt' = time_cnt + 1
            /\ NoJob("install")
    /\ UNCHANGED <<input, pend1, usr1, mod, signal_send, pend2, out_pc,
                   sent, processed, reads>>

------------------------------------------------------------------------------
(***************************************************************************)
(* output_main                                                             *)
(***************************************************************************)

OutGoto(from, to) == out_pc = from /\ out_pc' = to

\* sigset(SIGUSR2, handler), at the top of every round.
OutInstall ==
    /\ OutGoto("boot", "ready") \/ OutGoto("show", "ready")
    /\ UNCHANGED <<input, pend1, main, signal_send, shm_out, pend2,
                   sent, processed, reads, fresh, lost>>

\* sigsuspend(&mask).
OutSuspend ==
    /\ OutGoto("ready", "suspended")
    /\ UNCHANGED <<input, pend1, main, signal_send, shm_out, pend2,
                   sent, processed, reads, fresh, lost>>

\* SIGUSR2 ends the sigsuspend ...
OutWake ==
    /\ pend2 /\ pend2' = FALSE
    /\ OutGoto("suspended", "read")
    /\ UNCHANGED <<input, pend1, main, signal_send, shm_out,
                   sent, processed, reads, fresh, lost>>

\* ... but anywhere else in the loop the empty handler takes it, and that is all.
OutIgnore ==
    /\ pend2 /\ pend2' = FALSE
    /\ out_pc \in {"ready", "read", "show", "fini"}
    /\ lost' = \/ lost
               \/ /\ out_pc \in {"ready", "show"} /\ ~fresh
                  /\ main_pc \notin {"copying", "notify"}
    /\ UNCHANGED <<input, pend1, main, signal_send, shm_out, out_pc,
                   sent, processed, reads, fresh>>

\* Before the first sigset the default action of SIGUSR2 ends the process.
OutKilled ==
    /\ pend2 /\ pend2' = FALSE
    /\ OutGoto("boot", "killed")
    /\ UNCHANGED <<input, pend1, main, signal_send, shm_out,
                   sent, processed, reads, fresh, lost>>

\* Mutant: the test on "end" comes out the wrong way round.
EndSeen == shm_out # "end"
IsEnd == shm_out = "end"

\* strcpy(buf, shmaddr) and the test for "end".
OutRead ==
    /\ OutGoto("read", IF IsEnd THEN "fini" ELSE "show")
    /\ fresh' = (shm_out # "torn")
    /\ UNCHANGED <<input, pend1, main, signal_send, shm_out, pend2,
                   sent, processed, reads, lost>>

\* init_device, shmdt and the end of the process.
OutFini ==
    /\ OutGoto("fini", "exit")
    /\ UNCHANGED <<input, pend1, main, signal_send, shm_out, pend2,
                   sent, processed, reads, fresh, lost>>

\* A device that does not open, or a job it does not accept, ends the process:
\* exit(1) in device_helper.c.
OutFails ==
    /\ OutGoto("show", "killed") \/ OutGoto("fini", "killed")
    /\ UNCHANGED <<input, pend1, main, signal_send, shm_out, pend2,
                   sent, processed, reads, fresh, lost>>

------------------------------------------------------------------------------

MainStep ==
    MainBoot \/ MainWritten \/ MainNotify \/ MainInstall \/ MainTest \/ MainRead \/ MainSleep
OutStep == OutInstall \/ OutSuspend \/ OutRead \/ OutFini \/ OutFails
Deliver1 == Handler \/ MainKilled
Deliver2 == OutWake \/ OutIgnore \/ OutKilled

Next ==
    \/ InBoot \/ InWritten \/ InKill \/ \E m \in Messages : InWrite(m)
    \/ MainStep \/ OutStep \/ Deliver1 \/ Deliver2

\* The kernel schedules every process and delivers every pending signal; nobody
\* has to press a key.
Fairness ==
    /\ WF_vars(InBoot) /\ WF_vars(InWritten) /\ WF_vars(InKill)
    /\ WF_vars(MainStep) /\ WF_vars(OutStep)
    /\ WF_vars(Deliver1) /\ WF_vars(Deliver2)

Spec == Init /\ [][Next]_vars /\ Fairness

------------------------------------------------------------------------------
(***************************************************************************)
(* Properties                                                              *)
(***************************************************************************)

\* Every variable has its type; mod is always a mode and time_cnt below a tick.
TypeOK ==
    /\ in_pc \in {"boot", "poll", "copying", "kill", "exit"}
    /\ shm_in \in [new : Messages \cup {"none"}, old : Messages \cup {"none"}]
    /\ main_pc \in {"boot", "copying", "notify", "install", "test", "read", "sleep",
                    "exit", "killed"}
    /\ mod \in 0 .. ModNum - 1 /\ time_cnt \in 0 .. TickLen - 1
    /\ job \in {"text", "end"} /\ next_pc \in {"install", "sleep", "exit"}
    /\ shm_out \in {"none", "torn", "text", "end"}
    /\ out_pc \in {"boot", "ready", "suspended", "read", "show", "fini", "exit", "killed"}
    /\ pend1 \in BOOLEAN /\ usr1 \in BOOLEAN /\ signal_send \in BOOLEAN
    /\ pend2 \in BOOLEAN /\ fresh \in BOOLEAN /\ lost \in BOOLEAN
    /\ sent \in 0 .. MaxSends /\ processed \in 0 .. MaxSends /\ reads \in Nat

\* However the writes, the signals, the flag and the reads interleave, the last
\* message of the input process is not forgotten: main has read it in full, or
\* something is still under way that will make it read again.
InputNotMissed ==
    MainAlive =>
        \/ processed = sent
        \/ in_pc \in {"copying", "kill"} \/ pend1 \/ signal_send
        \/ main_pc = "read"

\* A message is acted on more than once when the signal of the one before, or
\* its own, comes after the read it was meant for, but not without bound.
ReadsBounded == reads <= 4

\* Nobody leaves before its turn: main only after the input process has written
\* the end, the output process only after main has.  A SIGUSR1 that ends main
\* instead comes before the first signal(), so before main has read any message.
EndsInOrder ==
    /\ main_pc = "exit" => shm_in.new = "end" /\ in_pc # "poll"
    /\ main_pc = "killed" => ~usr1 /\ processed = 0
    /\ out_pc \in {"fini", "exit"} => shm_out = "end"

\* The one way for the output process to miss a job is a SIGUSR2 that arrives
\* while it is busy: otherwise it has read the job or will be made to.
OutputNotMissed ==
    OutAlive /\ main_pc # "killed" =>
        \/ fresh \/ lost
        \/ main_pc \in {"copying", "notify"} \/ pend2
        \/ out_pc = "read"

\* The back key always reaches main, through any interleaving of earlier
\* messages and ticks; main is killed on the way only if it never got to its
\* first signal().
EndReachesMain ==
    (in_pc = "exit" /\ shm_in.new = "end")
        ~> (main_pc = "exit" \/ (main_pc = "killed" /\ ~usr1))

\* Main's end reaches the output process unless its signal falls into the empty
\* handler.
EndReachesOutputOrIsLost == (main_pc = "exit") ~> (~OutAlive \/ lost)

\* The end on its way through the three processes: see the two above.
EndTravels == EndReachesMain /\ EndReachesOutputOrIsLost

\* The comment over main's last message: it sends the process end message, on
\* which the output process ends.
EndReachesOutput == (main_pc = "exit") ~> ~OutAlive
==============================================================================
