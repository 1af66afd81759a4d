------------------------------- MODULE ConnServer -------------------------------
(***************************************************************************)
(* The command channel: the server of src/runtime/conn.c, called from the  *)
(* loop of main.c, and the clients that write lines to it.  The director   *)
(* (NFlambda in src/director/nflambda/platform.py) sends one command at a  *)
(* time and raises after an exception; an operator's terminal sends its    *)
(* lines and leaves when it likes.  A command is a number of equal bytes   *)
(* and a newline, so that a handled line shows whose bytes it holds.       *)
(***************************************************************************)
EXTENDS Integers, Sequences, FiniteSets

CONSTANTS NCommands,            \* commands of the director
          Length(_),            \* bytes of its n-th command, the newline left out
          OperatorText,         \* what the operator types: bytes and newlines
          Hush,                 \* bytes that begin a line cli_process says nothing to
          Blanks,               \* bytes that part words
          MsgInLenMax,          \* msg_in_len_max
          Tries                 \* failed connects after which send_command raises: 5

Conns == {"director", "operator"}

(* A byte is whose it is, and of which line; a newline is nobody's.        *)
NL == <<"newline", 0>>
Byte == (Conns \X Nat) \union {NL}
(* What the server writes.                                                 *)
Text == {"hello", "answer", "too long", "prompt"}

(* A command of the director is a few words and numbers, each of them      *)
(* answered, and shorter than msg_in, for which main.c sets 1024 bytes.    *)
ASSUME ConnAssumption == /\ NCommands \in Nat
                         /\ {MsgInLenMax, Tries} \subseteq Nat \ {0}
                         /\ \A n \in 1 .. NCommands :
                               /\ Length(n) \in 1 .. MsgInLenMax
                               /\ <<"director", n>> \notin Hush \union Blanks
                         /\ OperatorText \in Seq(Byte)

VARIABLES
    fd,         \* per connection: "none", "pending", "open", "closed"
    peer,       \* the other end: "here", "rst", "fin", or "broken": RST and reported
    up, down,   \* per connection: bytes to the server; what the director is sent
    pc,         \* the server: "poll", "byte", "control" or, after SIGPIPE, "killed"
    event,      \* the connection it serves and whether it hung up
    buf,        \* what it read and has not looked at
    msg_in,     \* the line being put together, one for all connections
    handled,    \* the lines given to cli_process
    dpc, k,     \* the director: "start", "hello", "idle", "wait", "retry", "raised"
    count,      \* its failed connects
    pieces      \* history: the operator's pieces read

serverVars == <<pc, event, buf, msg_in, handled, pieces>>
directorVars == <<dpc, k, count>>
vars == <<fd, peer, up, down, serverVars, directorVars>>

Units(n) == [i \in 1 .. Length(n) |-> <<"director", n>>]
Line(n) == Append(Units(n), NL)

(* conn_init: nothing connected, msg_in_len = 0.                           *)
Init ==
    /\ fd = [c \in Conns |-> "none"]
    /\ peer = [c \in Conns |-> "here"]
    /\ up = [c \in Conns |-> <<>>]
    /\ down = <<>>
    /\ pc = "poll" /\ event = [fd |-> "director", hup |-> FALSE]
    /\ buf = <<>> /\ msg_in = <<>> /\ handled = <<>> /\ pieces = 0
    /\ dpc = "start" /\ k = 1 /\ count = 0

-------------------------------------------------------------------------------
(* The server.  A write to a peer that is gone: after RST the first one    *)
(* reports it and fails; after FIN it passes, and the RST that answers it  *)
(* may be there before the next.  From then on a write, be it of nothing,  *)
(* raises SIGPIPE, which nobody handles.                                   *)
Killed == pc' = "killed" /\ buf' = <<>> /\ UNCHANGED <<fd, event, msg_in>>

Write(c, what, Ok, Fail) ==
    \/ /\ peer[c] \in {"here", "fin"}
       /\ down' = IF c = "director" /\ peer[c] = "here" THEN down \o what ELSE down
       /\ \/ UNCHANGED peer
          \/ peer[c] = "fin" /\ what # <<>> /\ peer' = [peer EXCEPT ![c] = "broken"]
       /\ Ok
    \/ /\ peer[c] = "rst" /\ peer' = [peer EXCEPT ![c] = "broken"] /\ Fail
       /\ UNCHANGED down
    \/ /\ peer[c] = "broken" /\ Killed
       /\ UNCHANGED <<down, peer>>

(* The greeting, and the empty prompt after it.                            *)
conn_poll_for_conn(c) ==
    /\ pc = "poll" /\ fd[c] = "pending"
    /\ Write(c, <<"hello">>,
             IF peer'[c] = "broken" THEN Killed
             ELSE fd' = [fd EXCEPT ![c] = "open"] /\ UNCHANGED <<pc, event, buf, msg_in>>,
             fd' = [fd EXCEPT ![c] = "closed"] /\ UNCHANGED <<pc, event, buf, msg_in>>)
    /\ UNCHANGED <<up, handled, pieces, directorVars>>

(* Mutant: what was read is read again. *)
conn_poll_for_msg_Again(c) ==
    /\ pc = "poll" /\ fd[c] = "open"
    /\ up[c] # <<>> \/ peer[c] # "here"
    /\ \E n \in 0 .. Len(up[c]) :
          /\ n = 0 => up[c] = <<>>
          /\ peer[c] # "here" => n = Len(up[c])
          /\ buf' = SubSeq(up[c], 1, n)
          /\ up' \in {up, [up EXCEPT ![c] = SubSeq(@, n + 1, Len(@))]}
          /\ pc' = IF n = 0 THEN "control" ELSE "byte"
          /\ pieces' = IF c = "operator" /\ n > 0 THEN pieces + 1 ELSE pieces
    /\ event' = [fd |-> c, hup |-> peer[c] # "here"]
    /\ UNCHANGED <<fd, peer, down, msg_in, handled, directorVars>>

(* epoll_wait returns one event; the read takes what has arrived.          *)
conn_poll_for_msg(c) ==
    /\ pc = "poll" /\ fd[c] = "open"
    /\ up[c] # <<>> \/ peer[c] # "here"
    /\ \E n \in 0 .. Len(up[c]) :
          /\ n = 0 => up[c] = <<>>
          /\ peer[c] # "here" => n = Len(up[c])
          /\ buf' = SubSeq(up[c], 1, n)
          /\ up' = [up EXCEPT ![c] = SubSeq(@, n + 1, Len(@))]
          /\ pc' = IF n = 0 THEN "control" ELSE "byte"
          /\ pieces' = IF c = "operator" /\ n > 0 THEN pieces + 1 ELSE pieces
    /\ event' = [fd |-> c, hup |-> peer[c] # "here"]
    /\ UNCHANGED <<fd, peer, down, msg_in, handled, directorVars>>

Return == pc' = "control" /\ buf' = <<>> /\ UNCHANGED <<msg_in, fd, event>>
Advance(m) == msg_in' = m /\ buf' = Tail(buf) /\ UNCHANGED <<pc, fd, event>>

(* cli_process writes nothing to msg_out: a comment, a line of blanks, or  *)
(* one that begins as a command whose second word it does not know.        *)
Silent(m) ==
    \/ m # <<>> /\ m[1] \in Hush
    \/ \A i \in DOMAIN m : m[i] \in Blanks

(* Mutant: msg_in_len is not set to 0 after an answer. *)
Newline_Kept ==
    /\ pc = "byte" /\ buf # <<>> /\ Head(buf) = NL
    /\ handled' = Append(handled, [msg |-> msg_in, fd |-> event.fd])
    /\ IF Silent(msg_in) THEN Advance(<<>>) /\ UNCHANGED <<down, peer>>
       ELSE Write(event.fd, <<"answer">>, Advance(msg_in), Return)
    /\ UNCHANGED <<up, pieces, directorVars>>

(* Mutant: the handler's output is not written. *)
Newline_NoAnswer ==
    /\ pc = "byte" /\ buf # <<>> /\ Head(buf) = NL
    /\ handled' = Append(handled, [msg |-> msg_in, fd |-> event.fd])
    /\ IF Silent(msg_in) THEN Advance(<<>>) /\ UNCHANGED <<down, peer>>
       ELSE Write(event.fd, <<>>, Advance(<<>>), Return)
    /\ UNCHANGED <<up, pieces, directorVars>>

(* data_event_handle, byte by byte.  A failed write returns before         *)
(* msg_in_len is set to 0, and what is left in buf is dropped.  A silent   *)
(* line is given no answer.                                                *)
Newline ==
    /\ pc = "byte" /\ buf # <<>> /\ Head(buf) = NL
    /\ handled' = Append(handled, [msg |-> msg_in, fd |-> event.fd])
    /\ IF Silent(msg_in) THEN Advance(<<>>) /\ UNCHANGED <<down, peer>>
       ELSE Write(event.fd, <<"answer">>, Advance(<<>>), Return)
    /\ UNCHANGED <<up, pieces, directorVars>>

(* Mutant: one byte more than msg_in_len_max is stored. *)
Store_OffByOne ==
    /\ pc = "byte" /\ buf # <<>> /\ Head(buf) # NL /\ Len(msg_in) <= MsgInLenMax
    /\ Advance(Append(msg_in, Head(buf)))
    /\ UNCHANGED <<up, down, peer, handled, pieces, directorVars>>

Store ==
    /\ pc = "byte" /\ buf # <<>> /\ Head(buf) # NL /\ Len(msg_in) < MsgInLenMax
    /\ Advance(Append(msg_in, Head(buf)))
    /\ UNCHANGED <<up, down, peer, handled, pieces, directorVars>>

TooLong ==
    /\ pc = "byte" /\ buf # <<>> /\ Head(buf) # NL /\ Len(msg_in) >= MsgInLenMax
    /\ Write(event.fd, <<"too long">>, Advance(<<>>), Return)
    /\ UNCHANGED <<up, handled, pieces, directorVars>>

(* Mutant: a prompt that is not empty, as conn_params allows. *)
Prompt_Shown ==
    /\ pc = "byte" /\ buf = <<>>
    /\ Write(event.fd, <<"prompt">>, Return, Return)
    /\ UNCHANGED <<up, handled, pieces, directorVars>>

(* The prompt main.c configures is empty, and still written.               *)
Prompt ==
    /\ pc = "byte" /\ buf = <<>>
    /\ Write(event.fd, <<>>, Return, Return)
    /\ UNCHANGED <<up, handled, pieces, directorVars>>

control_event_handle ==
    /\ pc = "control"
    /\ fd' = IF event.hup THEN [fd EXCEPT ![event.fd] = "closed"] ELSE fd
    /\ pc' = "poll"
    /\ UNCHANGED <<peer, up, down, event, buf, msg_in, handled, pieces, directorVars>>

Server(c) == conn_poll_for_conn(c) \/ conn_poll_for_msg(c)
DataEvent == Newline \/ Store \/ TooLong \/ Prompt \/ control_event_handle

-------------------------------------------------------------------------------
(* The director.                                                           *)
Alive == pc # "killed"

Construct ==
    /\ dpc = "start" /\ Alive
    /\ fd' = [fd EXCEPT !["director"] = "pending"] /\ dpc' = "hello"
    /\ UNCHANGED <<peer, up, down, serverVars, k, count>>

Hello ==
    /\ dpc = "hello" /\ (down # <<>> \/ ~Alive)
    /\ down' = <<>>
    /\ dpc' = "idle"
    /\ UNCHANGED <<fd, peer, up, serverVars, k, count>>

send_command ==
    /\ dpc = "idle" /\ k <= NCommands
    /\ count' = 0
    /\ IF Alive /\ peer["director"] = "here"
       THEN /\ up' = [up EXCEPT !["director"] = @ \o Line(k)]
            /\ dpc' = "wait"
       ELSE dpc' = "retry" /\ UNCHANGED up
    /\ UNCHANGED <<fd, peer, down, serverVars, k>>

(* recv takes whatever has come, and nothing looks at what it says.  From  *)
(* a server that is gone it returns the empty string, or raises.           *)
Receive ==
    /\ dpc = "wait"
    /\ \/ down # <<>> /\ dpc' = "idle" /\ k' = k + 1
       \/ /\ down = <<>> /\ ~Alive
          /\ \/ dpc' = "idle" /\ k' = k + 1
             \/ dpc' = "retry" /\ k' = k
       \/ /\ down = <<>> /\ Alive /\ peer["director"] # "here"
          /\ dpc' = "retry" /\ k' = k
    /\ down' = <<>>
    /\ UNCHANGED <<fd, peer, up, serverVars, count>>

(* The except branch calls connect on the socket it has, which has been    *)
(* connected: the call fails (EISCONN), each of the Tries times.           *)
Retry ==
    /\ dpc = "retry"
    /\ count' = count + 1
    /\ dpc' = IF count + 1 = Tries THEN "raised" ELSE "retry"
    /\ UNCHANGED <<fd, peer, up, down, serverVars, k>>

Director == Construct \/ Hello \/ send_command \/ Receive \/ Retry

-------------------------------------------------------------------------------
(* What the network and the operator may do.  A reset loses some of what   *)
(* the director sent, and perhaps what it was sent.                        *)
Reset ==
    /\ Alive /\ dpc \in {"idle", "wait"} /\ peer["director"] = "here"
    /\ peer' = [peer EXCEPT !["director"] = "rst"]
    /\ \E n \in 0 .. Len(up["director"]) :
          up' = [up EXCEPT !["director"] = SubSeq(@, 1, n)]
    /\ down' \in {down, <<>>}
    /\ UNCHANGED <<fd, serverVars, directorVars>>

(* The operator connects and sends its text, perhaps not to the end.       *)
OperatorTypes ==
    /\ fd["operator"] = "none" /\ Alive
    /\ fd' = [fd EXCEPT !["operator"] = "pending"]
    /\ \E n \in 1 .. Len(OperatorText) :
          up' = [up EXCEPT !["operator"] = SubSeq(OperatorText, 1, n)]
    /\ UNCHANGED <<peer, down, serverVars, directorVars>>

OperatorLeaves ==
    /\ Alive /\ fd["operator"] \in {"pending", "open"} /\ peer["operator"] = "here"
    /\ peer' = [peer EXCEPT !["operator"] = "fin"]
    /\ UNCHANGED <<fd, up, down, serverVars, directorVars>>

Next ==
    \/ \E c \in Conns : Server(c)
    \/ DataEvent \/ Director
    \/ Reset \/ OperatorTypes \/ OperatorLeaves

(* The loop of main.c polls for ever and epoll serves every ready          *)
(* connection in turn; the director's process runs.                        *)
Fairness ==
    /\ \A c \in Conns : WF_vars(conn_poll_for_conn(c)) /\ SF_vars(conn_poll_for_msg(c))
    /\ WF_vars(DataEvent) /\ WF_vars(Director)

Spec == Init /\ [][Next]_vars /\ Fairness
-------------------------------------------------------------------------------
(* The variables stay in their types, and msg_in within its allocation.    *)
TypeOK ==
    /\ fd \in [Conns -> {"none", "pending", "open", "closed"}]
    /\ peer \in [Conns -> {"here", "rst", "fin", "broken"}]
    /\ up \in [Conns -> Seq(Byte)] /\ down \in Seq(Text)
    /\ pc \in {"poll", "byte", "control", "killed"}
    /\ event \in [fd : Conns, hup : BOOLEAN]
    /\ buf \in Seq(Byte) /\ msg_in \in Seq(Byte) /\ Len(msg_in) <= MsgInLenMax
    /\ handled \in Seq([msg : Seq(Byte), fd : Conns]) /\ pieces \in Nat
    /\ dpc \in {"start", "hello", "idle", "wait", "retry", "raised"}
    /\ k \in 1 .. NCommands + 1 /\ count \in 0 .. Tries

Command(m) == \E n \in 1 .. NCommands : m = Units(n)
From(c) == {i \in DOMAIN handled : handled[i].fd = c}
Torn == {i \in From("director") : ~Command(handled[i].msg)}

(* Until the server reads from another client, cli_process is given the    *)
(* director's commands whole, once and in order, its connection may be     *)
(* lost or not, and while the server lives a command that send_command     *)
(* returned from has been handled.                                         *)
AloneOnceInOrder ==
    pieces = 0 =>
        /\ \A i \in DOMAIN handled :
              handled[i] = [msg |-> Units(i), fd |-> "director"]
        /\ Alive => Len(handled) \in {k - 1, k}

(* msg_in is shared, and heals at the next newline: each piece read from   *)
(* the operator spoils one command of the director at most, and an answer  *)
(* the director no longer takes one more, for it leaves msg_in as it was.  *)
TornBounded ==
    Cardinality(Torn) <=
        IF pieces = 0 THEN 0 ELSE pieces + IF peer["director"] # "here" THEN 1 ELSE 0

(* The director takes "Command too long", or the answer to what is left of *)
(* its last command, for the answer to this one.  It runs ahead of the     *)
(* server by one command for each piece of the operator's and no more.     *)
AheadOfServer == Alive => k - 1 <= Cardinality(From("director")) + pieces

(* Every send_command returns or raises, unless the operator's bytes in    *)
(* front of the director's made it a line that has no answer, the last of  *)
(* the director's that was handled: recv has no timeout.                   *)
Hung == \E i \in From("director") :
            Silent(handled[i].msg) /\ \A j \in From("director") : j <= i
SendReturns == dpc = "wait" ~> (dpc # "wait" \/ Hung)
===============================================================================
