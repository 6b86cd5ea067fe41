------------------------------ MODULE Mailbox -------------------------------
(***************************************************************************)
(* Commands over the web socket.  The task of the web server copies a      *)
(* frame into one global buffer and raises a flag                          *)
(* (ws_server_event_handler, src/components/connections/                   *)
(* httpd_ssl_setup.cpp); machine_run polls the flag, copies the command    *)
(* out, executes it and answers (run, src/main/acionna/acionna.cpp).       *)
(* There is no lock: the two tasks interleave within the copies.           *)
(*                                                                         *)
(* A frame without a complete command ($ ... ;) is Junk; so is a CLOSE     *)
(* frame that carries a status, which the handler takes for data, and a    *)
(* frame whose command lies beyond its length modulo 256, the uint8_t that *)
(* the handler stores.  The buffer is reduced to two halves of the text    *)
(* and the length; a command made of parts of several frames is Torn.      *)
(*                                                                         *)
(* The texts, what handle_message does and the state of the connection are *)
(* left out.  Operators marked "mutant" are mistakes that no specification *)
(* makes.                                                                  *)
(***************************************************************************)
CONSTANTS
  Clients,    \* web socket clients
  Commands,   \* whole commands
  Junk,       \* a frame without one
  Torn,       \* a command mixed from several frames
  None

ASSUME MailboxAssumption ==
  /\ Junk \notin Commands /\ Torn \notin Commands /\ None \notin Commands
  /\ Junk # Torn /\ Junk # None /\ Torn # None
  /\ None \notin Clients

Frames == Commands \cup {Junk}
Parts  == {"head", "tail", "len"}

VARIABLES
  open,       \* clients whose socket is open
  sock,       \* ws_server_sock0
  frame,      \* the frame in the handler
  writer,     \* what the handler does next; "idle": it is not running
  box,        \* ws_server_data (head, tail) and ws_server_data_len
  flag,       \* ws_server_data_flag
  loop,       \* what run() does next; "idle": it polls the flag
  got,        \* what parser_ has read
  cmd,        \* command_str_
  ran,        \* the last command given to handle_message
  reply,      \* the client that got the last answer
  from,       \* history: the client of the last frame
  disturbed   \* history: a client did not wait for its answer

server  == <<sock, frame, writer, box>>
task    == <<loop, got, cmd, ran, reply>>
history == <<from, disturbed>>
vars    == <<open, server, flag, task, history>>

Busy == writer # "idle" \/ flag \/ loop # "idle"

-----------------------------------------------------------------------------
(* The clients and the handler, which serves one request at a time.        *)

\* The handshake: answers go to the client that came last.
Connect(c) ==
  /\ writer = "idle"
  /\ c \notin open
  /\ open' = open \cup {c}
  /\ sock' = c
  /\ disturbed' = (disturbed \/ Busy)
  /\ UNCHANGED <<frame, writer, box, flag, task, from>>

\* The connection is closed (an empty CLOSE frame) or lost.
Leave(c) ==
  /\ c \in open
  /\ open' = open \ {c}
  /\ UNCHANGED <<server, flag, task, history>>

\* A frame arrives.  A client that keeps to the rules has the socket that is
\* answered, has had its answer, and sends a command.
Send(c, f) ==
  /\ writer = "idle" /\ c \in open
  /\ frame' = f /\ from' = c
  /\ writer' = "head"
  /\ disturbed' = (disturbed \/ Busy \/ c # sock \/ f = Junk)
  /\ UNCHANGED <<open, sock, box, flag, task>>

\* memcpy, then the length.
Write(part, then) ==
  /\ writer = part
  /\ box' = [box EXCEPT ![part] = frame]
  /\ writer' = then
  /\ UNCHANGED <<open, sock, frame, flag, task, history>>

Raise ==
  /\ writer = "flag"
  /\ flag' = TRUE
  /\ writer' = "idle"
  /\ UNCHANGED <<open, sock, frame, box, task, history>>

Handler ==
  \/ Write("head", "tail") \/ Write("tail", "len") \/ Write("len", "flag")
  \/ Raise

-----------------------------------------------------------------------------
(* machine_run: msg_fetch_, msg_exec_, msg_back_.                          *)

FetchKept ==  \* mutant: the flag is not cleared
  /\ loop = "idle" /\ flag
  /\ loop' = "len"
  /\ UNCHANGED <<open, server, flag, got, cmd, ran, reply, history>>

\* The flag is cleared before the buffer is read.
Fetch ==
  /\ loop = "idle" /\ flag
  /\ flag' = FALSE
  /\ loop' = "len"
  /\ UNCHANGED <<open, server, got, cmd, ran, reply, history>>

Read(part, then) ==
  /\ loop = part
  /\ got' = [got EXCEPT ![part] = box[part]]
  /\ loop' = then
  /\ UNCHANGED <<open, server, flag, cmd, ran, reply, history>>

ParsedUnchecked(g) == {g["head"]}  \* mutant: copied without being complete

\* What parser_ and memcpy leave in command_str_: a complete command, or
\* what was there before.  A buffer mixed of several frames may hold neither,
\* or the command of one of them untouched.
Parsed(g) ==
  IF \E f \in Frames : \A part \in Parts : g[part] = f
  THEN IF g["head"] \in Commands THEN {g["head"]} ELSE {cmd}
  ELSE {cmd, Torn} \cup ({g["head"], g["tail"]} \cap Commands)

ParseClears ==  \* mutant: the flag is cleared once the frame has been read
  /\ loop = "parse"
  /\ cmd' \in Parsed(got)
  /\ got' = [part \in Parts |-> None]
  /\ flag' = FALSE /\ loop' = "exec"
  /\ UNCHANGED <<open, server, ran, reply, history>>

Parse ==
  /\ loop = "parse"
  /\ cmd' \in Parsed(got)
  /\ got' = [part \in Parts |-> None]
  /\ loop' = "exec"
  /\ UNCHANGED <<open, server, flag, ran, reply, history>>

Exec ==
  /\ loop = "exec"
  /\ ran' = cmd
  /\ loop' = "reply"
  /\ UNCHANGED <<open, server, flag, got, cmd, reply, history>>

\* ws_server_send: to whichever client holds the socket by now.
MsgBack ==
  /\ loop = "reply"
  /\ reply' = IF sock \in open THEN sock ELSE None
  /\ loop' = "idle"
  /\ UNCHANGED <<open, server, flag, got, cmd, ran, history>>

Run ==
  \/ Fetch \/ Parse \/ Exec \/ MsgBack
  \/ Read("len", "head") \/ Read("head", "tail") \/ Read("tail", "parse")

-----------------------------------------------------------------------------

Init ==
  /\ open = {} /\ sock = None /\ frame = None /\ writer = "idle"
  /\ box = [part \in Parts |-> None] /\ flag = FALSE
  /\ loop = "idle" /\ got = [part \in Parts |-> None]
  /\ cmd = None /\ ran = None /\ reply = None
  /\ from = None /\ disturbed = FALSE

Users == \E c \in Clients :
           Connect(c) \/ Leave(c) \/ \E f \in Frames : Send(c, f)

Next == Users \/ Handler \/ Run

Spec == Init /\ [][Next]_vars

\* Neither task ever stops.
FairSpec == Spec /\ WF_vars(Handler) /\ WF_vars(Run)

-----------------------------------------------------------------------------
(* Properties.                                                             *)

TypeOK ==
  /\ open \in SUBSET Clients /\ sock \in Clients \cup {None}
  /\ frame \in Frames \cup {None}
  /\ writer \in {"idle", "flag"} \cup Parts
  /\ box \in [Parts -> Frames \cup {None}]
  /\ flag \in BOOLEAN
  /\ loop \in {"idle", "parse", "exec", "reply"} \cup Parts
  /\ got \in [Parts -> Frames \cup {None}]
  /\ cmd \in Commands \cup {Torn, None} /\ ran \in Commands \cup {Torn, None}
  /\ reply \in Clients \cup {None} /\ from \in Clients \cup {None}
  /\ disturbed \in BOOLEAN

\* However many clients send at once, when both tasks are done the command run
\* last is the one of the last frame, whole.
LastFrameRuns == ~Busy /\ frame \in Commands => ran = frame

Hidden(x) == IF disturbed THEN None ELSE x

Promise == INSTANCE Exchange WITH
  open  <- IF disturbed THEN {} ELSE open,
  phase <- IF disturbed THEN "disturbed"
           ELSE IF loop = "reply" THEN "ran"
           ELSE IF Busy THEN "asked" ELSE "idle",
  who   <- Hidden(from),
  what  <- Hidden(frame),
  ran   <- Hidden(ran),
  reply <- Hidden(reply)

\* A client that waits for its answer has its command run exactly once and as
\* it was sent, and the answer goes to that client (run, acionna.cpp:2113).
ImplementsExchange == Promise!Spec

\* ... and the answer comes.
AnswerComes == Promise!Answered

=============================================================================
