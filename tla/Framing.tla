-------------------------------- MODULE Framing --------------------------------
(***************************************************************************)
(* Where a message begins and ends.  Neither side sends lengths: a client  *)
(* ends its requests with a zero byte, all but LOGIN_MSG, which ends with  *)
(* the read; the server ends its messages with nothing.  TCP (and the TLS  *)
(* proxy in between) may hand several messages to one read, or a message   *)
(* to several.                                                             *)
(*                                                                         *)
(* The server parses all that has arrived up to the first zero byte and    *)
(* drops the rest (ChatServer::onMessage); the client parses what one      *)
(* SSL_read of at most 1024 bytes returns (readTaskHandler).  json::parse  *)
(* accepts exactly one whole text (ParsesGrammar of Json); anything else   *)
(* throws, nobody catches it, and the process ends.                        *)
(*                                                                         *)
(* A byte stream is a sequence of cells: pieces of messages and zeros.     *)
(***************************************************************************)
EXTENDS Naturals, Sequences

CONSTANTS
    Logins, Regs, Commands, Loginouts,  \* requests, each written once
    Pushes,         \* chat messages other clients have the server send
    Size,           \* pieces of a message, as large as an answer may be
    BufferSize,     \* pieces one SSL_read of the client returns at most
    NoMsg

Questions == Logins \cup Regs
Requests == Questions \cup Commands \cup Loginouts
Texts == Requests \cup Pushes

ASSUME FramingAssumption ==
    /\ Size \in [Texts -> Nat \ {0}]
    /\ BufferSize \in Nat \ {0}
    /\ NoMsg \notin Texts
    /\ Questions \cap (Commands \cup Loginouts \cup Pushes) = {}  \* by msgid

VARIABLES
    menu,       \* main thread: "login", "chat", or "wait" for an answer
    waiting,    \* the request it waits for
    written,    \* requests written so far
    toServer,   \* cells on their way to the server
    handled,    \* requests the server has dispatched
    serverUp,
    toClient,   \* cells on their way to the client
    posted,     \* messages the server has sent: request answered, or push
    shown,      \* messages the client has worked on
    clientUp,
    cut,        \* a read of the server has ended inside a message
    behind      \* requests written while another was still unread

requestVars == <<menu, waiting, written, toServer, behind>>
serverVars == <<handled, serverUp, cut>>
clientVars == <<toClient, posted, shown, clientUp>>
vars == <<requestVars, serverVars, clientVars>>

Zero == <<NoMsg, 0>>
Pieces(m) == [i \in 1 .. Size[m] |-> <<m, i>>]
Elems(s) == {s[i] : i \in DOMAIN s}

Init ==
    /\ menu = "login" /\ waiting = NoMsg
    /\ written = <<>> /\ toServer = <<>> /\ behind = {}
    /\ handled = <<>> /\ serverUp = TRUE /\ cut = FALSE
    /\ toClient = <<>> /\ posted = <<>> /\ shown = <<>> /\ clientUp = TRUE

-----------------------------------------------------------------------------
(* The client writes.                                                      *)

(* Mutant: every request is written with request.size().                   *)
NeverTerminated(m) == <<>>

(* SSL_write(ssl, request.c_str(), strlen(request.c_str()) + 1), but for   *)
(* login SSL_write(ssl, request.c_str(), request.size()).                  *)
Terminator(m) == IF m \in Logins THEN <<>> ELSE <<Zero>>

Write(m) ==
    /\ clientUp
    /\ m \notin Elems(written)
    /\ written' = Append(written, m)
    /\ toServer' = IF serverUp THEN toServer \o Pieces(m) \o Terminator(m) ELSE toServer
    /\ behind' = IF toServer = <<>> THEN behind ELSE behind \cup {m}
    /\ UNCHANGED <<serverVars, clientVars>>

(* Login and registration wait for the answer.                             *)
Ask(m) ==
    /\ menu = "login"
    /\ m \in Questions
    /\ Write(m)
    /\ menu' = "wait"
    /\ waiting' = m

Tell(m) ==
    /\ menu = "chat"
    /\ m \in Commands \cup Loginouts
    /\ Write(m)
    /\ menu' = IF m \in Loginouts THEN "login" ELSE "chat"
    /\ UNCHANGED waiting

-----------------------------------------------------------------------------
(* The server reads: ChatServer::onMessage.                                *)

(* Cell n is the last of a message and of its zero.                        *)
EndsMessage(stream, n) == n = Len(stream) \/ stream[n + 1][2] = 1

(* What json::parse looks at: a zero byte ends its input.                  *)
UpToZero(cells) ==
    LET zeros == {i \in DOMAIN cells : cells[i] = Zero}
    IN  IF zeros = {} THEN cells
        ELSE SubSeq(cells, 1, (CHOOSE i \in zeros : \A j \in zeros : i <= j) - 1)

(* The message a text is, if it is one.                                    *)
Parses(text, m) == text = Pieces(m)

Post(m) ==
    /\ posted' = Append(posted, m)
    /\ toClient' = toClient \o Pieces(m)

(* Mutant: REG_MSG has no handler.                                         *)
DispatchLoginOnly(m) ==
    /\ handled' = Append(handled, m)
    /\ IF m \in Logins /\ clientUp THEN Post(m) ELSE UNCHANGED <<posted, toClient>>

Dispatch(m) ==
    /\ handled' = Append(handled, m)
    /\ IF m \in Questions /\ clientUp THEN Post(m) ELSE UNCHANGED <<posted, toClient>>

(* Mutant: the string is looked at, but stays in the buffer.               *)
Peek(n) == toServer

(* retrieveAllAsString                                                     *)
RetrieveAll(n) == SubSeq(toServer, n + 1, Len(toServer))

(* Mutant: a buffer with more than one message is thrown away.             *)
OnMessageSingle ==
    /\ serverUp
    /\ \E n \in 1 .. Len(toServer) :
          LET text == UpToZero(SubSeq(toServer, 1, n))
          IN  /\ toServer' = RetrieveAll(n)
              /\ cut' = (cut \/ ~EndsMessage(toServer, n))
              /\ \E m \in Requests : Parses(text, m)
              /\ IF n <= Len(text) + 1
                 THEN \E m \in Requests : Parses(text, m) /\ Dispatch(m)
                 ELSE UNCHANGED <<handled, posted, toClient>>
              /\ UNCHANGED serverUp
    /\ UNCHANGED <<menu, waiting, written, behind, shown, clientUp>>

(* A read returns what has arrived, whatever that is.                      *)
OnMessage ==
    /\ serverUp
    /\ \E n \in 1 .. Len(toServer) :
          LET text == UpToZero(SubSeq(toServer, 1, n))
          IN  /\ toServer' = RetrieveAll(n)
              /\ cut' = (cut \/ ~EndsMessage(toServer, n))
              /\ \/ /\ \E m \in Requests : Parses(text, m) /\ Dispatch(m)
                    /\ UNCHANGED serverUp
                 \/ /\ \A m \in Requests : ~Parses(text, m)
                    /\ serverUp' = FALSE
                    /\ UNCHANGED <<handled, posted, toClient>>
    /\ UNCHANGED <<menu, waiting, written, behind, shown, clientUp>>

(* oneChat, groupChat or the observer, on another thread.                  *)
Push(m) ==
    /\ serverUp /\ clientUp
    /\ m \in Pushes \ Elems(posted)
    /\ Post(m)
    /\ UNCHANGED <<requestVars, serverVars, shown, clientUp>>

-----------------------------------------------------------------------------
(* The client reads: readTaskHandler.                                      *)

Understands(text, m) == Parses(text, m)

(* sem_post: a login may have been refused.                                *)
Wake(m) ==
    IF m \in Questions
    THEN /\ menu' \in IF m \in Logins THEN {"login", "chat"} ELSE {"login"}
         /\ waiting' = NoMsg
    ELSE UNCHANGED <<menu, waiting>>

(* Whatever has arrived and fits.                                          *)
ReadTask ==
    /\ clientUp
    /\ \E n \in 1 .. Len(toClient) :
          LET text == SubSeq(toClient, 1, n)
          IN  /\ n <= BufferSize
              /\ toClient' = SubSeq(toClient, n + 1, Len(toClient))
              /\ \/ \E m \in Texts :
                       /\ Understands(text, m)
                       /\ shown' = Append(shown, m)
                       /\ Wake(m)
                       /\ UNCHANGED clientUp
                 \/ /\ \A m \in Texts : ~Understands(text, m)
                    /\ clientUp' = FALSE
                    /\ UNCHANGED <<shown, menu, waiting>>
    /\ UNCHANGED <<written, toServer, behind, posted, serverVars>>

(* The server is gone: SSL_read returns 0, and the client ends.            *)
ConnectionLost ==
    /\ clientUp /\ ~serverUp /\ toClient = <<>>
    /\ clientUp' = FALSE
    /\ UNCHANGED <<requestVars, serverVars, toClient, posted, shown>>

Next ==
    \/ \E m \in Requests : Ask(m) \/ Tell(m)
    \/ OnMessage
    \/ \E m \in Pushes : Push(m)
    \/ ReadTask
    \/ ConnectionLost

Spec == Init /\ [][Next]_vars

(* Both event loops go on reading; nobody has to write anything.           *)
FairSpec == Spec /\ WF_vars(OnMessage) /\ WF_vars(ReadTask) /\ WF_vars(ConnectionLost)

-----------------------------------------------------------------------------
Before(s, a, b) == \E i, j \in DOMAIN s : i < j /\ s[i] = a /\ s[j] = b

InOrder(part, whole) ==
    /\ Elems(part) \subseteq Elems(whole)
    /\ \A i, j \in DOMAIN part : i < j => Before(whole, part[i], part[j])

(* However the streams are cut and joined, no request is made up of pieces *)
(* of two, none is handled twice and none overtakes another; the same for  *)
(* what the client works on, which is never half an answer.                *)
MessagesInOrder ==
    /\ InOrder(handled, written)
    /\ InOrder(shown, posted)
    /\ \A m \in Elems(shown) : Size[m] <= BufferSize

(* A read that ends inside a message, or between it and its zero, ends the *)
(* server, and with it everybody's session.  Messages that are only joined *)
(* never do: the one kind without a zero is followed by nothing, because   *)
(* its sender waits.                                                       *)
ServerOutlivesJoins == serverUp \/ cut

(* Joined messages are lost all the same, all but the first of a read.     *)
(* Without cuts, nothing is lost that was written when all before it had   *)
(* been read.                                                              *)
LostOnlyBehindAnother ==
    ~cut => \A m \in Elems(written) :
                \/ m \in Elems(handled) \cup behind
                \/ \E i \in DOMAIN toServer : toServer[i][1] = m

(* A client that waits gets its answer or ends, unless its request was     *)
(* written behind another (a login right after a loginout): that one may   *)
(* wait for ever.                                                          *)
WaitEnds ==
    \A m \in Questions :
        waiting = m /\ m \notin behind ~> waiting # m \/ ~clientUp
=============================================================================
