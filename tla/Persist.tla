------------------------------- MODULE Persist -------------------------------
(***************************************************************************)
(* Crash-safe persistence: persist.go, the snapshot functions of the stores *)
(* and the start-up and shutdown code of cmd/server/main.go, with one       *)
(* session and the mailbox of one of its agents.                            *)
(*                                                                          *)
(* A snapshot is taken store by store while requests go on, is written to a *)
(* temporary file and renamed over the state file.  The periodic flusher    *)
(* and, at shutdown, the final flush in main do this independently.  A      *)
(* crash loses memory and what was not synced.  The scratchpad is restored  *)
(* independently of the rest and left out; files, presence, leadership and  *)
(* watch tokens are not persisted.                                          *)
(***************************************************************************)
EXTENDS Naturals, FiniteSets

CONSTANTS
  MaxMessages,   \* bound: messages sent
  MaxCrashes, MaxShutdowns, MaxFailures, MaxCloses,   \* bounds on faults and deletions
  NoSnapshot     \* the state file does not exist

ASSUME PersistAssumption ==
  {MaxMessages, MaxCrashes, MaxShutdowns, MaxFailures, MaxCloses} \subseteq Nat

Ids      == 1..MaxMessages
Flushers == {"periodic", "final"}

(* A snapshot: is the session in the session store, the mailbox, the history *)
(* and the sequence counter; whole once it is synced.                        *)
Empty == [open |-> FALSE, mail |-> {}, hist |-> {}, seq |-> 0, whole |-> FALSE]

VARIABLES
  up,        \* "up"; "draining", "flushing", "exiting" (shutdown); or "down"
  open, mail, hist, seq,   \* the server's memory: messages by identity
  made, seqOf,             \* messages sent, and the sequence number of each
  sending,   \* the message recorded in history and not yet delivered, or 0
  polling,   \* a long-poll on the mailbox is in flight
  closing,   \* CloseSession: "no", "hub", "mail"
  fpc, snap, begin,        \* locals of the flushers; begin: history, the mail at the start
  disk,      \* the state file
  crashes, shutdowns, failures, closes,
  reads,     \* history: how often a message was returned to a reader
  accepted,  \* history: messages whose send returned
  safe,      \* history: mail that a completed flush was to make durable
  dropped    \* history: messages that a session deletion dropped

memory  == <<open, mail, hist, seq>>
request == <<made, seqOf, sending, polling, closing>>
flush   == <<fpc, snap, begin>>
faults  == <<crashes, shutdowns, failures, closes>>
history == <<reads, accepted, safe, dropped>>
vars    == <<up, memory, request, flush, disk, faults, history>>

Snapshots == [open : BOOLEAN, mail : SUBSET Ids, hist : SUBSET Ids, seq : 0..MaxMessages,
              whole : BOOLEAN]

ASSUME NoSnapshotAssumption == NoSnapshot \notin Snapshots

TypeOK ==
  /\ up \in {"up", "draining", "flushing", "exiting", "down"}
  /\ open \in BOOLEAN /\ mail \subseteq Ids /\ hist \subseteq Ids /\ seq \in 0..MaxMessages
  /\ made \in 0..MaxMessages /\ seqOf \in [Ids -> 0..MaxMessages]
  /\ sending \in Ids \cup {0} /\ polling \in BOOLEAN /\ closing \in {"no", "hub", "mail"}
  /\ fpc \in [Flushers -> {"rest", "sessions", "mail", "hist", "seq", "write", "rename"}]
  /\ snap \in [Flushers -> Snapshots] /\ begin \in [Flushers -> SUBSET Ids]
  /\ disk \in Snapshots \cup {NoSnapshot}
  /\ crashes \in 0..MaxCrashes /\ shutdowns \in 0..MaxShutdowns
  /\ failures \in 0..MaxFailures /\ closes \in 0..MaxCloses
  /\ reads \in [Ids -> Nat] /\ accepted \subseteq Ids /\ safe \subseteq Ids /\ dropped \subseteq Ids

Init ==
  /\ up = "up"
  /\ open = TRUE /\ mail = {} /\ hist = {} /\ seq = 0
  /\ made = 0 /\ seqOf = [i \in Ids |-> 0]
  /\ sending = 0 /\ polling = FALSE /\ closing = "no"
  /\ fpc = [f \in Flushers |-> "rest"]
  /\ snap = [f \in Flushers |-> Empty] /\ begin = [f \in Flushers |-> {}]
  /\ disk = NoSnapshot
  /\ crashes = 0 /\ shutdowns = 0 /\ failures = 0 /\ closes = 0
  /\ reads = [i \in Ids |-> 0] /\ accepted = {} /\ safe = {} /\ dropped = {}

-----------------------------------------------------------------------------
(* Requests.  New ones are accepted until the shutdown starts; those in     *)
(* flight go on.                                                            *)

(* POST /sessions/{id}/register: GetOrCreate opens the session again that a  *)
(* deletion, or a restart from a snapshot without it, has taken away.        *)
Register ==
  /\ up = "up" /\ ~open
  /\ open' = TRUE
  /\ UNCHANGED <<up, mail, hist, seq, request, flush, disk, faults, history>>

(* SendMessage: recordEnvelope, then the delivery. *)
SendRecord ==
  /\ up = "up" /\ open /\ sending = 0 /\ made < MaxMessages
  /\ made' = made + 1 /\ seq' = seq + 1
  /\ seqOf' = [seqOf EXCEPT ![made + 1] = seq + 1]
  /\ hist' = hist \cup {made + 1}
  /\ sending' = made + 1
  /\ UNCHANGED <<up, open, mail, polling, closing, flush, disk, faults, history>>

(* The mailbox has room: what a full one pushes out is in module Mailbox. *)
SendDeliver ==
  /\ up # "down" /\ sending # 0
  /\ mail' = mail \cup {sending}
  /\ accepted' = accepted \cup {sending}
  /\ sending' = 0
  /\ UNCHANGED <<up, open, hist, seq, made, seqOf, polling, closing, flush, disk, faults,
                 reads, safe, dropped>>

PollCall ==
  /\ up = "up" /\ open /\ ~polling
  /\ polling' = TRUE
  /\ UNCHANGED <<up, memory, made, seqOf, sending, closing, flush, disk, faults, history>>

(* Mutant: the mailbox is read and not emptied. *)
DrainCopies ==
  /\ up # "down" /\ polling
  /\ reads' = [i \in Ids |-> IF i \in mail THEN reads[i] + 1 ELSE reads[i]]
  /\ polling' = FALSE
  /\ UNCHANGED <<up, memory, made, seqOf, sending, closing, flush, disk, faults,
                 accepted, safe, dropped>>

(* A destructive read: the reader gets all of the mailbox, or none. *)
Drain ==
  /\ up # "down" /\ polling
  /\ reads' = [i \in Ids |-> IF i \in mail THEN reads[i] + 1 ELSE reads[i]]
  /\ mail' = {}
  /\ polling' = FALSE
  /\ UNCHANGED <<up, open, hist, seq, made, seqOf, sending, closing, flush, disk, faults,
                 accepted, safe, dropped>>

(* DELETE /sessions/{id}: the record, history with counter, the mailboxes. *)
CloseRecord ==
  /\ up = "up" /\ open /\ closing = "no" /\ closes < MaxCloses
  /\ open' = FALSE /\ closing' = "hub" /\ closes' = closes + 1
  /\ UNCHANGED <<up, mail, hist, seq, made, seqOf, sending, polling, flush, disk,
                 crashes, shutdowns, failures, history>>

CloseHub ==
  /\ up # "down" /\ closing = "hub"
  /\ hist' = {} /\ seq' = 0 /\ closing' = "mail"
  /\ UNCHANGED <<up, open, mail, made, seqOf, sending, polling, flush, disk, faults, history>>

CloseMail ==
  /\ up # "down" /\ closing = "mail"
  /\ dropped' = dropped \cup mail
  /\ mail' = {} /\ closing' = "no"
  /\ UNCHANGED <<up, open, hist, seq, made, seqOf, sending, polling, flush, disk, faults,
                 reads, accepted, safe>>

-----------------------------------------------------------------------------
(* getSnapshot and Flush. *)

FlushGo(f, at, next) == up # "down" /\ fpc[f] = at /\ fpc' = [fpc EXCEPT ![f] = next]

(* Mutant: the periodic flusher ends with the first flush that fails. *)
FlushStartUntilError(f) ==
  /\ IF f = "final" THEN up = "flushing" ELSE failures = 0
  /\ FlushGo(f, "rest", "sessions")
  /\ snap' = [snap EXCEPT ![f] = Empty]
  /\ begin' = [begin EXCEPT ![f] = mail]
  /\ UNCHANGED <<up, memory, request, disk, faults, history>>

(* The periodic flusher stops only between two flushes, and its select may *)
(* still prefer a ticker that fired to the stop channel.                   *)
FlushStart(f) ==
  /\ f = "final" => up = "flushing"
  /\ FlushGo(f, "rest", "sessions")
  /\ snap' = [snap EXCEPT ![f] = Empty]
  /\ begin' = [begin EXCEPT ![f] = mail]
  /\ UNCHANGED <<up, memory, request, disk, faults, history>>

SnapSessions(f) ==
  /\ FlushGo(f, "sessions", "mail")
  /\ snap' = [snap EXCEPT ![f].open = open]
  /\ UNCHANGED <<up, memory, request, begin, disk, faults, history>>

SnapMail(f) ==
  /\ FlushGo(f, "mail", "hist")
  /\ snap' = [snap EXCEPT ![f].mail = mail]
  /\ UNCHANGED <<up, memory, request, begin, disk, faults, history>>

SnapHistory(f) ==
  /\ FlushGo(f, "hist", "seq")
  /\ snap' = [snap EXCEPT ![f].hist = hist]
  /\ UNCHANGED <<up, memory, request, begin, disk, faults, history>>

SnapSeq(f) ==
  /\ FlushGo(f, "seq", "write")
  /\ snap' = [snap EXCEPT ![f].seq = seq]
  /\ UNCHANGED <<up, memory, request, begin, disk, faults, history>>

(* Mutant: the temporary file is not synced before it is renamed. *)
FlushUnsynced(f) ==
  /\ FlushGo(f, "write", "rename")
  /\ UNCHANGED <<up, memory, request, snap, begin, disk, faults, history>>

(* The temporary file is created, written and synced; nobody reads it yet. *)
FlushWrite(f) ==
  /\ FlushGo(f, "write", "rename")
  /\ snap' = [snap EXCEPT ![f].whole = TRUE]
  /\ UNCHANGED <<up, memory, request, begin, disk, faults, history>>

EndFlush(f) ==
  /\ snap' = [snap EXCEPT ![f] = Empty]
  /\ begin' = [begin EXCEPT ![f] = {}]
  /\ up' = IF f = "final" THEN "exiting" ELSE up

FlushRename(f) ==
  /\ FlushGo(f, "rename", "rest")
  /\ disk' = snap[f]
  /\ safe' = safe \cup begin[f]
  /\ EndFlush(f)
  /\ UNCHANGED <<memory, request, faults, reads, accepted, dropped>>

(* Any step of Flush may fail; the temporary file is removed. *)
FlushFail(f) ==
  /\ up # "down" /\ fpc[f] \in {"write", "rename"} /\ failures < MaxFailures
  /\ failures' = failures + 1
  /\ fpc' = [fpc EXCEPT ![f] = "rest"]
  /\ EndFlush(f)
  /\ UNCHANGED <<memory, request, disk, crashes, shutdowns, closes, history>>

-----------------------------------------------------------------------------
(* SIGTERM: srv.Shutdown waits for the handlers, 10 s at most.  Sends are   *)
(* done by then; a long-poll need not be.  flusher.Stop does not wait for a *)
(* flush that is under way.                                                 *)
Shutdown ==
  /\ up = "up" /\ shutdowns < MaxShutdowns
  /\ up' = "draining" /\ shutdowns' = shutdowns + 1
  /\ UNCHANGED <<memory, request, flush, disk, crashes, failures, closes, history>>

StopFlusher ==
  /\ up = "draining" /\ sending = 0 /\ closing = "no"
  /\ up' = "flushing"
  /\ UNCHANGED <<memory, request, flush, disk, faults, history>>

(* main returns, and the process exits. *)
Exit ==
  /\ up = "exiting"
  /\ up' = "down"
  /\ UNCHANGED <<memory, request, flush, disk, faults, history>>

Crash ==
  /\ up # "down" /\ crashes < MaxCrashes
  /\ crashes' = crashes + 1
  /\ up' = "down"
  /\ UNCHANGED <<memory, request, flush, disk, shutdowns, failures, closes, history>>

(* Mutants: the counter is restored as the next number, not as the last;   *)
(* and it is not restored.                                                 *)
LoadedNext ==
  IF disk # NoSnapshot /\ disk.whole THEN [disk EXCEPT !.seq = @ + 1] ELSE Empty

LoadedWithoutCounter ==
  IF disk # NoSnapshot /\ disk.whole THEN [disk EXCEPT !.seq = 0] ELSE Empty

(* A new process: Load, restoreState, StartFlusher.  A file that cannot be *)
(* decoded counts as absent.                                               *)
Loaded == IF disk # NoSnapshot /\ disk.whole THEN disk ELSE Empty

Restart ==
  /\ up = "down"
  /\ open' = Loaded.open /\ mail' = Loaded.mail /\ hist' = Loaded.hist /\ seq' = Loaded.seq
  /\ sending' = 0 /\ polling' = FALSE /\ closing' = "no"
  /\ fpc' = [f \in Flushers |-> "rest"]
  /\ snap' = [f \in Flushers |-> Empty] /\ begin' = [f \in Flushers |-> {}]
  /\ up' = "up"
  /\ UNCHANGED <<made, seqOf, disk, faults, history>>

-----------------------------------------------------------------------------
Requests == Register \/ SendRecord \/ SendDeliver \/ PollCall \/ Drain
            \/ CloseRecord \/ CloseHub \/ CloseMail

Flush(f) == FlushStart(f) \/ SnapSessions(f) \/ SnapMail(f) \/ SnapHistory(f) \/ SnapSeq(f)
            \/ FlushWrite(f) \/ FlushRename(f) \/ FlushFail(f)

Next ==
  \/ Requests
  \/ \E f \in Flushers : Flush(f)
  \/ Shutdown \/ StopFlusher \/ Exit \/ Crash \/ Restart

(* Both goroutines that flush keep running while the process is up, and a  *)
(* server that is down is started again.                                   *)
Spec == Init /\ [][Next]_vars /\ WF_vars(Flush("periodic")) /\ WF_vars(Flush("final"))
        /\ WF_vars(StopFlusher \/ Exit) /\ WF_vars(SendDeliver) /\ WF_vars(Restart)

-----------------------------------------------------------------------------
Settled(i) == reads[i] # 0 \/ i \in dropped

(* A crash loses at most the mail that came after the last completed flush  *)
(* began: what was in the mailbox then is still there, or was read, or was  *)
(* dropped with its session, after any number of crashes, failed flushes    *)
(* and restarts.  A shutdown lets two flushes run at a time, and an older   *)
(* snapshot may then replace a newer one (CleanRestartLosesNothing below).  *)
LossWindow == up # "down" /\ shutdowns = 0 => \A i \in safe : i \in mail \/ Settled(i)

(* The counter is not below the history and not below the queued mail,     *)
(* after restarts too, although a snapshot copies mailboxes, history and    *)
(* counter at three instants while messages are being sent: a message never *)
(* gets the number of one that the server still holds.  The copies agree as *)
(* long as the session is not deleted between them.  Nothing is said of     *)
(* messages that a crash has taken: it sets the counter back to the last    *)
(* snapshot, and numbers that clients have seen since are given again.      *)
CounterAboveHistory == up # "down" /\ closes = 0 => \A i \in hist \cup mail : seqOf[i] <= seq

(* A drain is undone by a restart and by nothing else: a message is         *)
(* returned at most once for every run of the process, however flushes,     *)
(* deliveries and long-polls interleave.                                    *)
RereadOnlyAfterRestart == \A i \in Ids : reads[i] <= 1 + crashes + shutdowns

(* Queued mail is read, dropped with its session, or on disk, sooner or     *)
(* later, unless the process crashes before that: a periodic flush that     *)
(* fails only delays it.  A shutdown counts like a crash if flushes have    *)
(* failed, since the failing one may be the final flush.  Nothing is said   *)
(* of how long it stays on disk: CleanRestartLosesNothing, below.           *)
MailBecomesDurable ==
  \A i \in Ids, c \in 0..MaxCrashes :
    (i \in mail /\ up \in {"up", "draining", "flushing"} /\ crashes = c) ~>
      \/ Settled(i) \/ (disk # NoSnapshot /\ disk.whole /\ i \in disk.mail)
      \/ crashes > c \/ (up = "exiting" /\ failures # 0)

-----------------------------------------------------------------------------
(* What a comment says, and an interleaving refutes. *)

(* main.go: "Final flush so a clean restart loses nothing".  Mail that was  *)
(* accepted and neither read nor dropped is in the state file when the      *)
(* process has exited.                                                      *)
CleanRestartLosesNothing ==
  up = "down" => \A i \in accepted : Settled(i) \/ (disk # NoSnapshot /\ i \in disk.mail)
=============================================================================
