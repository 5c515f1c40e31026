--------------------------------- MODULE CLI ---------------------------------
(***************************************************************************)
(* The watch goroutine of the command line client                          *)
(* (cmd/agentchat-cli/main.go) composed with the server of EventStream.    *)
(*                                                                         *)
(* The client reads the frames of one SSE connection in order: connected,  *)
(* the replay, the live events.  At connected it drains its own mailbox,   *)
(* which is destructive.  Whatever it gets, from wherever, it shows only   *)
(* above one high-water mark, lastSeq.  Connections are cut at any time    *)
(* and take the frames under way with them; a drain may fail before the    *)
(* server has seen it or after the server has emptied the mailbox.         *)
(***************************************************************************)
EXTENDS EventStream

CONSTANTS
  Me,       \* the agent at the terminal
  NoStream  \* the client is not connected

ASSUME CLIAssumption == Me \in Members /\ NoStream \notin Streams

VARIABLES
  box,       \* the mailbox of Me, in the order of arrival
  conn,      \* the connection the client reads from
  frame,     \* frames of it that the client has consumed
  draining,  \* whether the watch goroutine waits for a drain response
  response,  \* the envelopes in that response
  lastSeq,   \* CLI.lastSeq
  shown,     \* events that displayEnvelope printed
  excused    \* events the client has lost, each for a reason named below

reader  == <<conn, frame, draining, response, lastSeq, shown>>
cliVars == <<vars, box, reader, excused>>

CLIInit ==
  /\ Init
  /\ box = <<>> /\ conn = NoStream /\ frame = 0
  /\ draining = FALSE /\ response = <<>>
  /\ lastSeq = 0 /\ shown = {} /\ excused = {}

-----------------------------------------------------------------------------
(* What a step of the server makes the client lose whatever it does next:   *)
(* an event still being fanned out when a later one gets its number, which  *)
(* may then overtake it on the stream and in the mailbox ...                *)
Overtakable ==
  IF seqNum' = seqNum THEN {} ELSE {event[e] : e \in Emitters} \ {0}

(* ... and an event that finds the channel of the client's stream full. *)
DroppedNow == IF conn = NoStream THEN {} ELSE dropped'[conn]

(* Mail that the drain of this connection does not take, because it came    *)
(* after the drain or because the drain failed before the server saw it,    *)
(* and that is not in the replay q of stream s (a system event, which no    *)
(* history keeps, or a message trimmed from it): the live events do not     *)
(* bring it either, or the replay has a later event and comes first.  The   *)
(* mark may pass it before the next drain gets it.                          *)
Stranded(s, q) ==
  {i \in Elements(box) \ Elements(q) :
     \/ ~Reached(i, s) /\ ~OnItsWay(i, s)
     \/ \E j \in Elements(q) : j > i}

(* A step A of the server: its deliveries to Me go to the end of the        *)
(* mailbox.  The mailbox has room: what a full one pushes out is in module  *)
(* Mailbox.                                                                 *)
Server(A) ==
  /\ A
  /\ box' = box \o (IF delivered'[Me] = delivered[Me] THEN <<>>
                    ELSE <<CHOOSE i \in delivered'[Me] : i \notin delivered[Me]>>)
  /\ excused' = excused \cup Overtakable \cup DroppedNow
  /\ UNCHANGED reader

(* The replay of stream s, at which it is decided what is stranded. *)
ServerReplay(s) ==
  /\ Replay(s)
  /\ excused' = excused \cup (IF conn = s /\ (draining \/ frame > 0) THEN Stranded(s, history) ELSE {})
  /\ UNCHANGED <<box, reader>>

(* The handler of a connection that the client has left returns. *)
ServerDisconnect(s) ==
  /\ conn # s
  /\ Disconnect(s)
  /\ UNCHANGED <<box, reader, excused>>

-----------------------------------------------------------------------------
(* watchLoop starts watchSSE, and the server accepts.  A refusal (watch     *)
(* token expired, limit reached, no network) changes nothing: the loop      *)
(* sleeps and tries again.                                                  *)
Watch(s) ==
  /\ conn = NoStream
  /\ Admit(s)
  /\ conn' = s
  /\ UNCHANGED <<box, frame, draining, response, lastSeq, shown, excused>>

(* The stream ends or breaks, or a frame is longer than the scanner takes:  *)
(* what was not consumed is gone, the parser with it.                       *)
Cut ==
  /\ conn # NoStream /\ ~draining
  /\ conn' = NoStream /\ frame' = 0
  /\ UNCHANGED <<vars, box, draining, response, lastSeq, shown, excused>>

(* Mutant: the mark moves to the newest of a batch before the batch is shown. *)
ShowAfterMark(q) ==
  LET new == {i \in Elements(q) : i > lastSeq /\ \A j \in Elements(q) : j <= i} IN
  /\ shown' = shown \cup new
  /\ lastSeq' = IF new = {} THEN lastSeq ELSE CHOOSE i \in new : TRUE

(* showEnvelope for each element of q in turn: an event at or below the     *)
(* mark is skipped, so are those behind a larger one of q itself.           *)
Show(q) ==
  LET new == {k \in DOMAIN q : q[k] > lastSeq /\ \A j \in 1..k-1 : q[j] < q[k]} IN
  /\ shown' = shown \cup {q[k] : k \in new}
  /\ lastSeq' = IF new = {} THEN lastSeq
                ELSE q[CHOOSE k \in new : \A j \in new : j <= k]

(* The connected frame: drainAndDisplay asks for the mailbox, and the       *)
(* server has emptied it.                                                   *)
Drain ==
  /\ conn # NoStream /\ frame = 0 /\ ~draining
  /\ spc[conn] # "admitted"
  /\ draining' = TRUE
  /\ response' = box /\ box' = <<>>
  /\ UNCHANGED <<vars, conn, frame, lastSeq, shown, excused>>

(* The response arrives and is shown. *)
DrainDisplay ==
  /\ draining
  /\ Show(response)
  /\ draining' = FALSE /\ response' = <<>> /\ frame' = 1
  /\ UNCHANGED <<vars, box, conn, excused>>

(* The response is lost, and with it the mail. *)
DrainLost ==
  /\ draining
  /\ excused' = excused \cup Elements(response)
  /\ draining' = FALSE /\ response' = <<>> /\ frame' = 1
  /\ UNCHANGED <<vars, box, conn, lastSeq, shown>>

(* The drain fails before the server has seen it: the mail stays where it   *)
(* is, and the client goes on to the frames that follow.                    *)
DrainFails ==
  /\ conn # NoStream /\ frame = 0 /\ ~draining
  /\ spc[conn] # "admitted"
  /\ frame' = 1
  /\ excused' = excused \cup (IF spc[conn] = "live" THEN Stranded(conn, replay[conn]) ELSE {})
  /\ UNCHANGED <<vars, box, conn, draining, response, lastSeq, shown>>

(* The frames behind connected, as the parser puts them together. *)
Frames == replay[conn] \o live[conn]

(* Mutant: a frame at or below the mark ends the reading. *)
ReadStops ==
  /\ conn # NoStream /\ frame > 0
  /\ frame <= Len(Frames) /\ Frames[frame] > lastSeq
  /\ Show(<<Frames[frame]>>)
  /\ frame' = frame + 1
  /\ UNCHANGED <<vars, box, conn, draining, response, excused>>

(* The next history or message frame. *)
Read ==
  /\ conn # NoStream /\ frame > 0
  /\ frame <= Len(Frames)
  /\ Show(<<Frames[frame]>>)
  /\ frame' = frame + 1
  /\ UNCHANGED <<vars, box, conn, draining, response, excused>>

-----------------------------------------------------------------------------
ServerEmit(e)   == Server(Emit(e))
ServerFanOut(e) == Server(FanOut(e))
ServerStream(s) == Server(Connected(s) \/ Subscribe(s) \/ Forward(s)) \/ ServerReplay(s)
DrainEnds       == DrainDisplay \/ DrainLost

CLINext ==
  \/ \E e \in Emitters : ServerEmit(e) \/ ServerFanOut(e)
  \/ \E s \in Streams : ServerStream(s) \/ ServerDisconnect(s) \/ Watch(s)
  \/ Cut \/ Drain \/ DrainFails \/ DrainEnds \/ Read

(* Handlers run on, and the client keeps reading.  A drain ends within the  *)
(* timeout of its http.Client.  Reconnecting is fair: watchLoop retries for *)
(* ever, and the heartbeat renews the watch token meanwhile.                *)
Fairness ==
  /\ \A e \in Emitters : WF_cliVars(ServerFanOut(e))
  /\ \A s \in Streams : /\ WF_cliVars(ServerStream(s)) /\ WF_cliVars(Watch(s))
                        /\ WF_cliVars(ServerDisconnect(s))
  /\ WF_cliVars(Drain \/ DrainFails) /\ WF_cliVars(DrainEnds) /\ WF_cliVars(Read)

CLISpec == CLIInit /\ [][CLINext]_cliVars /\ Fairness

-----------------------------------------------------------------------------
(* showEnvelope shows an event once, above the mark.  Mail for Me is lost   *)
(* to the mark in five ways and no other, however often the stream is cut:  *)
(* it overlapped with a later event; it met a full channel; it went with a  *)
(* lost response; it came between the drain and the subscription and is not *)
(* in the history; or the drain failed before the server saw it, and it is  *)
(* not in the history.  All other mail is shown, or still above the mark in *)
(* the mailbox or in a response under way.                                  *)
MailShown ==
  \A i \in delivered[Me] :
    \/ i \in shown \cup excused
    \/ i > lastSeq /\ i \in Elements(box) \cup Elements(response)

(* watchLoop keeps the stream alive: once the connection is no longer cut,  *)
(* the mark reaches every message that stays in the history, whoever sent   *)
(* it and whatever became of the drains, unless the channel was full.       *)
HistoryReached ==
  ~[]<><<Cut>>_cliVars =>
    \A i \in Events : i \in Elements(history) ~>
      \/ lastSeq >= i
      \/ i \notin Elements(history)
      \/ \E s \in Streams : i \in dropped[s]
=============================================================================
