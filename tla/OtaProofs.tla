----------------------------- MODULE OtaProofs ------------------------------
(***************************************************************************)
(* Proofs about the firmware update, for any number of tasks at once, any  *)
(* versions and any size of an image.                                      *)
(***************************************************************************)
EXTENDS Ota, TLAPS

-----------------------------------------------------------------------------
(* Types.                                                                  *)

\* Before the next block is read or written, there is one left.
LeftInv ==
  \A t \in Tasks : at[t] \in {"open", "read", "check", "write"} => off[t] < Size

TypeInv == TypeOK /\ LeftInv

LEMMA TypeInit == Init => TypeInv
<1> SUFFICES ASSUME Init PROVE TypeInv
  OBVIOUS
<1>1. at \in [Tasks -> Steps \cup {"none"}] /\ off \in [Tasks -> 0..Size]
  BY OtaAssumption DEF Init
<1>2. PICK v \in Versions :
        /\ version = [t \in Tasks |-> v]
        /\ content = [s \in Slots |-> IF s = 0 THEN Image(v)
                                      ELSE [n \in 1..Size |-> Erased]]
  BY DEF Init
<1>3. Image(v) \in [1..Size -> Blocks] /\ Erased \in Blocks
  BY DEF Image, Blocks
<1>4. version \in [Tasks -> Versions] /\ content \in [Slots -> [1..Size -> Blocks]]
  BY <1>2, <1>3
<1>5. LeftInv
  BY DEF Init, LeftInv
<1> QED
  BY <1>1, <1>3, <1>4, <1>5 DEF Init, TypeInv, TypeOK, Slots

LEMMA ForgetTypes ==
  Forget => /\ at' \in [Tasks -> Steps \cup {"none"}]
            /\ off' \in [Tasks -> 0..Size]
            /\ buffer' \in Blocks
            /\ LeftInv'
BY OtaAssumption DEF Forget, Blocks, LeftInv

LEMMA TypeStep == TypeInv /\ [Next]_vars => TypeInv'
<1> SUFFICES ASSUME TypeInv, [Next]_vars PROVE TypeInv'
  OBVIOUS
<1> USE OtaAssumption DEF TypeInv, TypeOK, LeftInv, Slots, Steps
<1>1. ASSUME NEW t \in Tasks, Start(t) PROVE TypeInv'
  BY <1>1 DEF Start, Go, flash
<1>2. ASSUME NEW t \in Tasks, Fail(t) PROVE TypeInv'
  BY <1>2 DEF Fail, Go, flash
<1>3. ASSUME NEW t \in Tasks, Open(t) PROVE TypeInv'
  BY <1>3 DEF Open, Go, flash
<1>4. ASSUME NEW t \in Tasks, Read(t) PROVE TypeInv'
  BY <1>4 DEF Read, Go, flash, Blocks
<1>5. ASSUME NEW t \in Tasks, Check(t) PROVE TypeInv'
  BY <1>5 DEF Check, Go, flash
<1>6. ASSUME NEW t \in Tasks, Write(t) PROVE TypeInv'
  <2>1. Target \in Slots
    BY DEF Target
  <2>2. Erased \in Blocks
    BY DEF Blocks
  <2>3. PICK keep \in BOOLEAN, piece \in {buffer, Erased} :
          content' = [content EXCEPT ![Target] =
            [i \in 1..Size |-> IF i = off[t] + 1 THEN piece
                               ELSE IF i > off[t] + 1 /\ ~keep THEN Erased
                               ELSE content[Target][i]]]
    BY <1>6 DEF Write
  <2>4. content' \in [Slots -> [1..Size -> Blocks]]
    BY <2>1, <2>2, <2>3
  <2> QED
    BY <1>6, <2>4 DEF Write, Go
<1>7. ASSUME NEW t \in Tasks, End(t) PROVE TypeInv'
  BY <1>7 DEF End, Go, flash
<1>8. ASSUME NEW t \in Tasks, SetBoot(t) PROVE TypeInv'
  BY <1>8 DEF SetBoot, Go, Target
<1>9. ASSUME NEW t \in Tasks, Finish(t) PROVE TypeInv'
  BY <1>9 DEF Finish, Go, flash
<1>10. CASE Report
  BY <1>10 DEF Report, tasks, flash
<1>11. CASE ClientComesOrGoes
  BY <1>11 DEF ClientComesOrGoes, tasks, flash
<1>12. CASE Restart
  BY <1>12, ForgetTypes DEF Restart, Forget
<1>13. CASE MarkInvalid
  <2>1. 1 - boot \in {0, 1}
    OBVIOUS
  <2>2. Forget /\ boot' \in {0, 1} /\ running' \in {0, 1} /\ mixed' \in BOOLEAN
    BY <1>13, <2>1 DEF MarkInvalid
  <2> QED
    BY <2>2, ForgetTypes DEF Forget
<1>14. CASE UNCHANGED vars
  BY <1>14 DEF vars, tasks, flash
<1> QED
  BY <1>1, <1>2, <1>3, <1>4, <1>5, <1>6, <1>7, <1>8, <1>9, <1>10, <1>11,
     <1>12, <1>13, <1>14 DEF Next, TaskStep

LEMMA TypeAlways == Spec => []TypeInv
BY TypeInit, TypeStep, PTL DEF Spec

\* The blocks, the offsets and the states of the update are what ota_task
\* declares them to be: it never writes past the end of an image.
THEOREM TypeCorrect == Spec => []TypeOK
BY TypeAlways, PTL DEF TypeInv

-----------------------------------------------------------------------------
(* The image that runs.                                                    *)

\* Outside a restart only Write touches the partitions, and only the other.
LEMMA RunningKept ==
  ASSUME TypeInv, [Next]_vars, ~Restart, ~MarkInvalid
  PROVE  /\ running' = running
         /\ Whole(running)' <=> Whole(running)
<1>1. ASSUME NEW t \in Tasks, Write(t)
      PROVE  running' = running /\ content'[running] = content[running]
  <2>1. running # Target
    BY DEF TypeInv, TypeOK, Slots, Target
  <2> QED
    BY <1>1, <2>1 DEF Write, TypeInv, TypeOK
<1>2. ASSUME NEW t \in Tasks,
             Start(t) \/ Fail(t) \/ Open(t) \/ Read(t) \/ Check(t) \/ End(t)
               \/ SetBoot(t) \/ Finish(t)
      PROVE  running' = running /\ content' = content
  BY <1>2 DEF Start, Fail, Open, Read, Check, End, SetBoot, Finish, flash
<1>3. Report \/ ClientComesOrGoes \/ UNCHANGED vars
        => running' = running /\ content' = content
  BY DEF Report, ClientComesOrGoes, vars, flash
<1>4. running' = running /\ content'[running] = content[running]
  BY <1>1, <1>2, <1>3 DEF Next, TaskStep
<1> QED
  BY <1>4 DEF Whole

LEMMA BootableInit == Init => AlwaysBootable
<1> SUFFICES ASSUME Init PROVE \E v \in Versions : content[running] = Image(v)
  BY DEF AlwaysBootable, Whole
<1> QED
  BY DEF Init, Slots

LEMMA BootableStep ==
  TypeInv /\ AlwaysBootable /\ [Next]_vars => AlwaysBootable'
<1> SUFFICES ASSUME TypeInv, AlwaysBootable, [Next]_vars PROVE AlwaysBootable'
  OBVIOUS
<1>1. CASE Restart
  <2>1. Whole(running') /\ content' = content
    BY <1>1 DEF Restart, Forget
  <2> QED
    BY <2>1 DEF AlwaysBootable, Whole
<1>2. CASE MarkInvalid
  <2>1. Whole(running') /\ content' = content
    BY <1>2 DEF MarkInvalid, Forget
  <2> QED
    BY <2>1 DEF AlwaysBootable, Whole
<1>3. CASE ~Restart /\ ~MarkInvalid
  BY <1>3, RunningKept DEF AlwaysBootable
<1> QED
  BY <1>1, <1>2, <1>3

\* Whatever number of updates run at once, wherever they fail and whenever
\* power fails, the image that runs is whole (ota_task writes the other one).
THEOREM NeverUnbootable == Spec => []AlwaysBootable
<1>1. TypeInv /\ AlwaysBootable /\ [Next]_vars => AlwaysBootable'
  BY BootableStep
<1> QED
  BY <1>1, BootableInit, TypeAlways, PTL DEF Spec

-----------------------------------------------------------------------------
(* The image that is to be started.                                        *)

\* While updates are asked for one at a time, the one under way finds the
\* running partition chosen, until it chooses its own.
TurnInv ==
  ~mixed =>
    /\ \A t, u \in Alive : t = u
    /\ \A t \in Alive :
         IF at[t] = "finish" THEN boot = Target
         ELSE boot = running /\ update # "finish_update"

UpdateInv == TypeInv /\ AlwaysBootable /\ TurnInv /\ BootIsWhole /\ FinishIsTrue

LEMMA UpdateInit == Init => UpdateInv
BY TypeInit, BootableInit
   DEF Init, UpdateInv, TurnInv, BootIsWhole, FinishIsTrue, AlwaysBootable, Alive

\* A step of one task or of the loop leaves the partitions and the choice.
LEMMA ChoiceKept ==
  ASSUME UpdateInv, content' = content, running' = running, boot' = boot,
         mixed' = mixed, TurnInv', update' = update \/ update' # "finish_update"
  PROVE  BootIsWhole' /\ FinishIsTrue'
BY DEF UpdateInv, BootIsWhole, FinishIsTrue, Target, Whole

LEMMA UpdateStep == UpdateInv /\ [Next]_vars => UpdateInv'
<1> SUFFICES ASSUME UpdateInv, [Next]_vars
             PROVE  TurnInv' /\ BootIsWhole' /\ FinishIsTrue'
  BY TypeStep, BootableStep DEF UpdateInv
<1> USE DEF UpdateInv
<1>0. /\ at \in [Tasks -> Steps \cup {"none"}]
      /\ running \in Slots /\ boot \in Slots
  BY DEF TypeInv, TypeOK
<1>1. ASSUME NEW t \in Tasks, Start(t)
      PROVE  TurnInv' /\ BootIsWhole' /\ FinishIsTrue'
  <2>1. content' = content /\ running' = running /\ boot' = boot
        /\ update' = update
    BY <1>1 DEF Start, flash
  <2>2. ASSUME ~mixed'
        PROVE  ~mixed /\ Alive = {} /\ boot = running /\ Alive' = {t}
               /\ at'[t] = "open"
    BY <1>0, <1>1, <2>2 DEF Start, Go, Alive
  <2>3. ~mixed' => update # "finish_update"
    BY <1>0, <2>2 DEF FinishIsTrue, Target, Slots
  <2>4. TurnInv'
    BY <2>1, <2>2, <2>3 DEF TurnInv
  <2> QED
    BY <2>1, <2>2, <2>3, <2>4 DEF BootIsWhole, FinishIsTrue, Whole
<1>2. ASSUME NEW t \in Tasks,
             Fail(t) \/ Open(t) \/ Read(t) \/ Check(t) \/ End(t)
      PROVE  TurnInv' /\ BootIsWhole' /\ FinishIsTrue'
  <2>1. /\ content' = content /\ running' = running /\ boot' = boot
        /\ mixed' = mixed
        /\ update' = update \/ update' = "updating"
    BY <1>2 DEF Fail, Open, Read, Check, End, flash
  <2>2. at[t] \in Steps \ {"finish"} /\ t \in Alive
    BY <1>2 DEF Fail, Open, Read, Check, End, Steps, Alive
  <2>3. \E step \in (Steps \ {"finish"}) \cup {"none"} :
          at' = [at EXCEPT ![t] = step]
    BY <1>2 DEF Fail, Open, Read, Check, End, Go, Steps
  <2>4. /\ Alive' \subseteq Alive
        /\ \A u \in Alive' : at[u] = "finish" <=> at'[u] = "finish"
    BY <1>0, <2>2, <2>3 DEF Alive
  <2>5. TurnInv'
    BY <2>1, <2>4 DEF TurnInv, Target
  <2> QED
    BY <2>1, <2>5, ChoiceKept
<1>3. ASSUME NEW t \in Tasks, Write(t)
      PROVE  TurnInv' /\ BootIsWhole' /\ FinishIsTrue'
  <2>1. /\ running' = running /\ boot' = boot
        /\ mixed' = mixed /\ update' = update
    BY <1>3 DEF Write
  <2>2. t \in Alive /\ at[t] # "finish"
    BY <1>3 DEF Write, Alive
  <2>3. \E step \in {"end", "read"} : at' = [at EXCEPT ![t] = step]
    BY <1>3 DEF Write, Go
  <2>4. /\ Alive' = Alive
        /\ \A u \in Alive' : at[u] = "finish" <=> at'[u] = "finish"
    BY <1>0, <2>2, <2>3 DEF Alive
  <2>5. TurnInv'
    BY <2>1, <2>4 DEF TurnInv, Target
  <2>6. AlwaysBootable'
    BY BootableStep
  <2>7. ~mixed => boot' = running' /\ update' # "finish_update"
    BY <2>1, <2>2 DEF TurnInv
  <2> QED
    BY <2>1, <2>5, <2>6, <2>7
    DEF BootIsWhole, FinishIsTrue, AlwaysBootable, Whole
<1>4. ASSUME NEW t \in Tasks, SetBoot(t)
      PROVE  TurnInv' /\ BootIsWhole' /\ FinishIsTrue'
  <2>1. /\ content' = content /\ running' = running
        /\ mixed' = mixed /\ update' = update
    BY <1>4 DEF SetBoot
  <2>2. t \in Alive /\ at[t] # "finish"
    BY <1>4 DEF SetBoot, Alive
  <2>3. ~mixed => update # "finish_update"
    BY <2>2 DEF TurnInv
  <2>4. CASE Whole(Target)
    <3>1. boot' = Target /\ at' = [at EXCEPT ![t] = "finish"]
      BY <1>4, <2>4 DEF SetBoot, Go
    <3>2. Alive' = Alive /\ at'[t] = "finish"
      BY <1>0, <2>2, <3>1 DEF Alive
    <3>3. Target' = Target
      BY <2>1 DEF Target
    <3>4. TurnInv'
      BY <2>1, <2>2, <3>1, <3>2, <3>3 DEF TurnInv
    <3> QED
      BY <2>1, <2>3, <2>4, <3>1, <3>4 DEF BootIsWhole, FinishIsTrue, Whole
  <2>5. CASE ~Whole(Target)
    <3>1. boot' = boot /\ at' = [at EXCEPT ![t] = "none"]
      BY <1>4, <2>5 DEF SetBoot, Go
    <3>2. /\ Alive' \subseteq Alive
          /\ \A u \in Alive' : at[u] = "finish" <=> at'[u] = "finish"
      BY <1>0, <2>2, <3>1 DEF Alive
    <3>3. TurnInv'
      BY <2>1, <3>1, <3>2 DEF TurnInv, Target
    <3> QED
      BY <2>1, <3>1, <3>3, ChoiceKept
  <2> QED
    BY <2>4, <2>5
<1>5. ASSUME NEW t \in Tasks, Finish(t)
      PROVE  TurnInv' /\ BootIsWhole' /\ FinishIsTrue'
  <2>1. /\ content' = content /\ running' = running /\ boot' = boot
        /\ mixed' = mixed
    BY <1>5 DEF Finish, flash
  <2>2. t \in Alive /\ at[t] = "finish" /\ at' = [at EXCEPT ![t] = "none"]
    BY <1>5 DEF Finish, Alive, Go
  <2>3. ~mixed => Alive = {t} /\ boot = Target
    BY <2>2 DEF TurnInv
  <2>4. ~mixed => Alive' = {}
    BY <1>0, <2>2, <2>3 DEF Alive
  <2> QED
    BY <2>1, <2>3, <2>4 DEF TurnInv, BootIsWhole, FinishIsTrue, Whole, Target
<1>6. CASE Report \/ ClientComesOrGoes \/ UNCHANGED vars
  <2>1. /\ content' = content /\ running' = running /\ boot' = boot
        /\ mixed' = mixed /\ at' = at
        /\ update' = update \/ update' = "idle"
    BY <1>6 DEF Report, ClientComesOrGoes, vars, tasks, flash
  <2>2. TurnInv'
    BY <2>1 DEF TurnInv, Alive, Target
  <2> QED
    BY <2>1, <2>2, ChoiceKept
<1>7. CASE Restart \/ MarkInvalid
  <2>1. Alive' = {} /\ update' = "idle" /\ content' = content
    BY <1>7 DEF Restart, MarkInvalid, Forget, Alive
  <2>2. ~mixed' => Whole(boot)'
    <3>1. CASE Restart
      BY <3>1, <2>1 DEF Restart, BootIsWhole, Whole
    <3>2. CASE MarkInvalid
      BY <3>2, <2>1 DEF MarkInvalid, Whole
    <3> QED
      BY <1>7, <3>1, <3>2
  <2> QED
    BY <2>1, <2>2 DEF TurnInv, BootIsWhole, FinishIsTrue
<1> QED
  BY <1>1, <1>2, <1>3, <1>4, <1>5, <1>6, <1>7 DEF Next, TaskStep

LEMMA UpdateAlways == Spec => []UpdateInv
BY UpdateInit, UpdateStep, PTL DEF Spec

\* Updates asked for one at a time leave a whole image to be started at every
\* moment, also if the task fails or power fails in between.
THEOREM NextStartIsWhole == Spec => []BootIsWhole
BY UpdateAlways, PTL DEF UpdateInv

\* ... and an update that machine_run reports as finished is the one that the
\* next start takes.
THEOREM FinishedTakesEffect == Spec => []FinishIsTrue
BY UpdateAlways, PTL DEF UpdateInv

=============================================================================
