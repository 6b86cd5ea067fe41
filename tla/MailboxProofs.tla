--------------------------- MODULE MailboxProofs ---------------------------
(***************************************************************************)
(* Proofs about Mailbox, for any set of clients and commands: its types,   *)
(* that the last frame is the one that runs, and that it implements        *)
(* Exchange.                                                               *)
(***************************************************************************)
EXTENDS Mailbox, TLAPS

\* Every variable of the mailbox keeps its range.
THEOREM TypeCorrect == Spec => []TypeOK
<1>1. Init => TypeOK
  BY DEF Init, TypeOK
<1>2. TypeOK /\ [Next]_vars => TypeOK'
  <2> SUFFICES ASSUME TypeOK, [Next]_vars
               PROVE  TypeOK'
    OBVIOUS
  <2> USE DEF TypeOK, server, task, history
  <2>1. CASE UNCHANGED vars
    BY <2>1 DEF vars
  <2>2. ASSUME NEW c \in Clients, Connect(c) \/ Leave(c)
        PROVE  TypeOK'
    BY <2>2 DEF Connect, Leave
  <2>3. ASSUME NEW c \in Clients, NEW f \in Frames, Send(c, f)
        PROVE  TypeOK'
    BY <2>3 DEF Send, Parts
  <2>4. ASSUME NEW part \in Parts, NEW then \in {"flag"} \cup Parts,
               Write(part, then)
        PROVE  TypeOK'
    BY <2>4 DEF Write
  <2>5. CASE Raise
    BY <2>5 DEF Raise
  <2>6. ASSUME NEW part \in Parts, NEW then \in {"parse"} \cup Parts,
               Read(part, then)
        PROVE  TypeOK'
    BY <2>6 DEF Read
  <2>7. CASE Fetch \/ Exec \/ MsgBack
    BY <2>7 DEF Fetch, Exec, MsgBack, Parts
  <2>8. CASE Parse
    BY <2>8 DEF Parse, Parsed
  <2> QED
    BY <2>1, <2>2, <2>3, <2>4, <2>5, <2>6, <2>7, <2>8
    DEF Next, Users, Handler, Run, Parts
<1> QED
  BY <1>1, <1>2, PTL DEF Spec

-----------------------------------------------------------------------------
(* What is known of the buffer and of what was read from it.               *)

\* The parts that the handler has copied hold the frame.
Copied ==
  /\ writer \in {"idle", "tail", "len", "flag"} => box["head"] = frame
  /\ writer \in {"idle", "len", "flag"}         => box["tail"] = frame
  /\ writer \in {"idle", "flag"}                => box["len"]  = frame

\* When the handler is done and the flag is down, what the loop has read
\* since it lowered the flag is the frame: no write can have come between.
Fresh ==
  writer = "idle" /\ ~flag =>
    /\ loop \in {"head", "tail", "parse"} => got["len"]  = frame
    /\ loop \in {"tail", "parse"}         => got["head"] = frame
    /\ loop = "parse"                     => got["tail"] = frame
    /\ loop = "exec" /\ frame \in Commands => cmd = frame
    /\ loop \in {"reply", "idle"} /\ frame \in Commands => ran = frame

MailInv == TypeOK /\ Copied /\ Fresh

LEMMA MailInit == Init => MailInv
<1> SUFFICES ASSUME Init PROVE MailInv
  OBVIOUS
<1>1. TypeOK
  BY DEF Init, TypeOK
<1>2. Copied /\ Fresh
  BY MailboxAssumption DEF Init, Copied, Fresh, Parts
<1> QED
  BY <1>1, <1>2 DEF MailInv

LEMMA MailStep == MailInv /\ [Next]_vars /\ TypeOK' => MailInv'
<1> SUFFICES ASSUME MailInv, [Next]_vars, TypeOK'
             PROVE  Copied' /\ Fresh'
  BY DEF MailInv
<1> USE DEF MailInv, TypeOK, Copied, Fresh, server, task, history
<1>1. CASE UNCHANGED vars
  BY <1>1 DEF vars
<1>2. ASSUME NEW c \in Clients, Connect(c) \/ Leave(c)
      PROVE  Copied' /\ Fresh'
  BY <1>2 DEF Connect, Leave
<1>3. ASSUME NEW c \in Clients, NEW f \in Frames, Send(c, f)
      PROVE  Copied' /\ Fresh'
  BY <1>3 DEF Send
<1>4. CASE Handler
  <2>1. CASE Write("head", "tail")
    BY <2>1 DEF Write, Parts
  <2>2. CASE Write("tail", "len")
    BY <2>2 DEF Write, Parts
  <2>3. CASE Write("len", "flag")
    BY <2>3 DEF Write, Parts
  <2>4. CASE Raise
    BY <2>4 DEF Raise
  <2> QED
    BY <1>4, <2>1, <2>2, <2>3, <2>4 DEF Handler
<1>5. CASE Run
  <2>1. CASE Fetch
    BY <2>1 DEF Fetch
  <2>2. CASE Read("len", "head")
    BY <2>2 DEF Read, Parts
  <2>3. CASE Read("head", "tail")
    BY <2>3 DEF Read, Parts
  <2>4. CASE Read("tail", "parse")
    BY <2>4 DEF Read, Parts
  <2>5. CASE Parse
    BY <2>5, MailboxAssumption DEF Parse, Parsed, Frames, Parts
  <2>6. CASE Exec
    BY <2>6 DEF Exec
  <2>7. CASE MsgBack
    BY <2>7 DEF MsgBack
  <2> QED
    BY <1>5, <2>1, <2>2, <2>3, <2>4, <2>5, <2>6, <2>7 DEF Run
<1> QED
  BY <1>1, <1>2, <1>3, <1>4, <1>5 DEF Next, Users

LEMMA MailAlways == Spec => []MailInv
<1>1. Spec => []TypeOK
  BY TypeCorrect
<1> QED
  BY <1>1, MailInit, MailStep, PTL DEF Spec

\* However many clients send at once, the command run last is the one of the
\* last frame, whole, when both tasks are done.
THEOREM LastFrameAlwaysRuns == Spec => []LastFrameRuns
<1>1. MailInv => LastFrameRuns
  BY DEF MailInv, Fresh, LastFrameRuns, Busy
<1> QED
  BY <1>1, MailAlways, PTL

-----------------------------------------------------------------------------
(* Refinement.                                                             *)

\* While nobody disturbs: at most one of the handler, the flag and the loop is
\* at work, on a command of the client that holds the socket.
Orderly ==
  ~disturbed =>
    /\ writer # "idle" => ~flag /\ loop = "idle"
    /\ flag => loop = "idle"
    /\ Busy => sock = from /\ frame \in Commands
    /\ loop = "reply" => ran = frame

LEMMA OrderlyStep == MailInv /\ Orderly /\ [Next]_vars => Orderly'
<1> SUFFICES ASSUME MailInv, Orderly, [Next]_vars
             PROVE  Orderly'
  OBVIOUS
<1> USE DEF MailInv, Orderly, Busy, server, task, history
<1>1. CASE UNCHANGED vars
  BY <1>1 DEF vars
<1>2. ASSUME NEW c \in Clients, Connect(c) \/ Leave(c)
      PROVE  Orderly'
  BY <1>2 DEF Connect, Leave
<1>3. ASSUME NEW c \in Clients, NEW f \in Frames, Send(c, f)
      PROVE  Orderly'
  BY <1>3 DEF Send, Frames
<1>4. CASE Handler
  BY <1>4 DEF Handler, Write, Raise
<1>5. CASE Run
  <2>1. CASE Exec
    BY <2>1 DEF Exec, Fresh
  <2>2. CASE Run /\ ~Exec
    BY <2>2 DEF Run, Fetch, Read, Parse, MsgBack
  <2> QED
    BY <1>5, <2>1, <2>2
<1> QED
  BY <1>1, <1>2, <1>3, <1>4, <1>5 DEF Next, Users

\* A step that leaves the exchange undisturbed is one of Exchange.
LEMMA StepRefines ==
  MailInv /\ Orderly /\ Orderly' /\ [Next]_vars => [Promise!Next]_(Promise!vars)
<1> SUFFICES ASSUME MailInv, Orderly, Orderly', [Next]_vars
             PROVE  Promise!Next \/ UNCHANGED Promise!vars
  OBVIOUS
<1> USE DEF Promise!vars, Hidden, server, task, history
<1>1. CASE disturbed
  <2>1. disturbed'
    BY <1>1 DEF Next, Users, Connect, Leave, Send, Handler, Write, Raise, Run,
                Fetch, Read, Parse, Exec, MsgBack, vars
  <2> QED
    BY <1>1, <2>1
<1>2. CASE ~disturbed /\ disturbed'
  <2>1. Promise!Disturb
    BY <1>2 DEF Promise!Disturb, Busy
  <2> QED
    BY <2>1 DEF Promise!Next
<1>3. CASE ~disturbed /\ ~disturbed'
  <2> USE <1>3 DEF Busy
  <2>1. CASE UNCHANGED vars
    BY <2>1 DEF vars
  <2>2. ASSUME NEW c \in Clients, Connect(c)
        PROVE  Promise!Come
    BY <2>2 DEF Connect, Promise!Come
  <2>3. ASSUME NEW c \in Clients, Leave(c)
        PROVE  Promise!Leave
    BY <2>3 DEF Leave, Promise!Leave
  <2>4. ASSUME NEW c \in Clients, NEW f \in Frames, Send(c, f)
        PROVE  Promise!Ask
    BY <2>4 DEF Send, Promise!Ask, Frames
  <2>5. CASE Handler
    BY <2>5 DEF Handler, Write, Raise, Orderly
  <2>6. CASE Fetch \/ Parse
    BY <2>6 DEF Fetch, Parse, Orderly
  <2>7. CASE Read("len", "head") \/ Read("head", "tail") \/ Read("tail", "parse")
    BY <2>7 DEF Read
  <2>8. CASE Exec
    <3>1. ran' = frame
      BY <2>8 DEF Exec, Orderly
    <3> QED
      BY <2>8, <3>1 DEF Exec, Promise!Next, Promise!Run
  <2>9. CASE MsgBack
    <3>1. sock = from /\ writer = "idle" /\ ~flag
      BY <2>9 DEF MsgBack, Orderly
    <3>2. Promise!Answer
      BY <2>9, <3>1 DEF MsgBack, Promise!Answer
    <3> QED
      BY <3>2 DEF Promise!Next
  <2> QED
    BY <2>1, <2>2, <2>3, <2>4, <2>5, <2>6, <2>7, <2>8, <2>9
    DEF Next, Users, Run, Promise!Next
<1> QED
  BY <1>1, <1>2, <1>3

\* A client that waits for its answer has its command run exactly once and as
\* it was sent, and the answer goes to that client.
THEOREM MailboxImplementsExchange == Spec => ImplementsExchange
<1>1. Init => Promise!Init
  BY DEF Init, Promise!Init, Busy, Hidden
<1>2. Init => Orderly
  BY DEF Init, Orderly, Busy
<1> QED
  BY <1>1, <1>2, MailAlways, OrderlyStep, StepRefines, PTL
  DEF Spec, ImplementsExchange, Promise!Spec

=============================================================================
