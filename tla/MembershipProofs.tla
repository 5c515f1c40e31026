-------------------------- MODULE MembershipProofs --------------------------
(***************************************************************************)
(* For every set of agents, messages and concurrent handlers, and every    *)
(* TTL and forget horizon: one join is announced for one presence record,  *)
(* going offline costs no mail, and the announcements agree with the       *)
(* presence tracker.                                                       *)
(***************************************************************************)
EXTENDS Membership, FiniteSetTheorems, TLAPS

(* The handlers that are about to announce their agent. *)
Announcing == {"again", "join"}

Labels == Registering \cup {"idle", "authed", "drain", "deliver"}

(* The locals of the handlers: their types, and what each label says of     *)
(* them.                                                                    *)
LocalsOK ==
  /\ pc \in [Requests -> Labels] /\ who \in [Requests -> Agents \cup {NoAgent}]
  /\ wasKnown \in [Requests -> BOOLEAN] /\ lapsed \in [Requests -> BOOLEAN]
  /\ isNew \in [Requests -> BOOLEAN]
  /\ msg \in [Requests -> Messages \cup {NoMessage}] /\ todo \in [Requests -> SUBSET Agents]
  /\ age \in [Requests -> 0..HandlerMax]
  /\ \A r \in Requests :
       /\ pc[r] # "idle" => who[r] \in Agents
       /\ pc[r] = "join" => isNew[r]
       /\ isNew[r] => pc[r] \in Announcing
       /\ pc[r] = "deliver" => msg[r] \in Messages

(* A handler's step leaves the others alone. *)
OthersKept(r) ==
  \A q \in Requests : q # r => /\ pc'[q] = pc[q] /\ who'[q] = who[q]
                               /\ isNew'[q] = isNew[q] /\ age'[q] = age[q]

(* A handler that returns has nothing left to announce. *)
LEMMA ReturnOK ==
  ASSUME LocalsOK, NEW r \in Requests, Return(r)
  PROVE  LocalsOK' /\ OthersKept(r) /\ pc'[r] = "idle" /\ isNew'[r] = FALSE
<1>0. 0 \in 0..HandlerMax
  BY MembershipAssumption
<1>1. pc' \in [Requests -> Labels] /\ who' \in [Requests -> Agents \cup {NoAgent}]
  BY DEF Return, Goto, LocalsOK, Labels
<1>2. wasKnown' \in [Requests -> BOOLEAN] /\ lapsed' \in [Requests -> BOOLEAN]
      /\ isNew' \in [Requests -> BOOLEAN]
  BY DEF Return, LocalsOK
<1>3. msg' \in [Requests -> Messages \cup {NoMessage}] /\ todo' \in [Requests -> SUBSET Agents]
      /\ age' \in [Requests -> 0..HandlerMax]
  BY <1>0 DEF Return, LocalsOK
<1>4. OthersKept(r) /\ pc'[r] = "idle" /\ isNew'[r] = FALSE
      /\ \A q \in Requests : q # r => msg'[q] = msg[q]
  BY DEF Return, Goto, LocalsOK, OthersKept
<1>5. ASSUME NEW q \in Requests
      PROVE  /\ pc'[q] # "idle" => who'[q] \in Agents
             /\ pc'[q] = "join" => isNew'[q]
             /\ isNew'[q] => pc'[q] \in Announcing
             /\ pc'[q] = "deliver" => msg'[q] \in Messages
  <2>1. CASE q = r
    BY <1>4, <2>1
  <2>2. CASE q # r
    BY <1>4, <2>2 DEF LocalsOK, OthersKept
  <2> QED BY <2>1, <2>2
<1> QED BY <1>1, <1>2, <1>3, <1>4, <1>5 DEF LocalsOK

(* The types of the locals alone. *)
LocalTypes ==
  /\ pc \in [Requests -> Labels] /\ who \in [Requests -> Agents \cup {NoAgent}]
  /\ wasKnown \in [Requests -> BOOLEAN] /\ lapsed \in [Requests -> BOOLEAN]
  /\ isNew \in [Requests -> BOOLEAN]
  /\ msg \in [Requests -> Messages \cup {NoMessage}] /\ todo \in [Requests -> SUBSET Agents]
  /\ age \in [Requests -> 0..HandlerMax]

(* A handler that goes on to another label. *)
LEMMA GotoOK ==
  ASSUME LocalsOK, NEW r \in Requests, LocalTypes', OthersKept(r),
         \A q \in Requests : q # r => msg'[q] = msg[q],
         who'[r] \in Agents,
         pc'[r] = "join" => isNew'[r],
         isNew'[r] => pc'[r] \in Announcing,
         pc'[r] = "deliver" => msg'[r] \in Messages
  PROVE  LocalsOK'
<1>1. ASSUME NEW q \in Requests
      PROVE  /\ pc'[q] # "idle" => who'[q] \in Agents
             /\ pc'[q] = "join" => isNew'[q]
             /\ isNew'[q] => pc'[q] \in Announcing
             /\ pc'[q] = "deliver" => msg'[q] \in Messages
  <2>1. CASE q = r
    BY <2>1
  <2>2. CASE q # r
    BY <2>2 DEF LocalsOK, OthersKept
  <2> QED BY <2>1, <2>2
<1> QED BY <1>1 DEF LocalsOK, LocalTypes

-----------------------------------------------------------------------------
(* The steps of a handler, by what they do to the tracker and to the        *)
(* announcements: nothing; a touch that announces nothing; the touch of     *)
(* Register; an announcement.                                               *)
Calm(r) ==
  /\ pc[r] \notin Announcing /\ pc'[r] \notin Announcing /\ isNew'[r] = FALSE
  /\ UNCHANGED <<known, since, expired, roster, joins, lives, silent, overtaken>>

SilentTouch(r) ==
  /\ pc[r] \notin Announcing /\ pc'[r] \notin Announcing /\ isNew'[r] = FALSE
  /\ \E a \in Agents : TouchAgent(a, FALSE)
  /\ UNCHANGED <<roster, joins, inbox, owed, sent>>

LoudTouch(r) ==
  /\ pc[r] = "touch" /\ TouchAgent(who[r], TRUE)
  /\ UNCHANGED <<roster, joins, inbox, owed, sent>>
  /\ \/ pc'[r] \in Announcing /\ who'[r] = who[r] /\ age'[r] = age[r]
        /\ isNew'[r] = (who[r] \notin known)
     \/ pc'[r] = "idle" /\ isNew'[r] = FALSE /\ who[r] \in known

Announces(r) ==
  /\ roster' = roster \cup {who[r]} /\ silent' = silent \ {who[r]}
  /\ UNCHANGED <<known, since, expired, inbox, owed, sent, lives, overtaken>>
  /\ \/ /\ pc[r] = "again" /\ isNew[r] /\ pc'[r] = "join" /\ isNew'[r] = TRUE
        /\ who'[r] = who[r] /\ age'[r] = age[r] /\ joins' = joins
     \/ pc[r] = "again" /\ ~isNew[r] /\ pc'[r] = "idle" /\ isNew'[r] = FALSE /\ joins' = joins
     \/ /\ pc[r] = "join" /\ isNew[r] /\ pc'[r] = "idle" /\ isNew'[r] = FALSE
        /\ joins' = [joins EXCEPT ![who[r]] = @ + 1]

Effect(r) == Calm(r) \/ SilentTouch(r) \/ LoudTouch(r) \/ Announces(r)

(* The steps of Register. *)
LEMMA RegisterEffect ==
  ASSUME LocalsOK, NEW r \in Requests, Register(r)
  PROVE  LocalsOK' /\ OthersKept(r) /\ Effect(r) /\ UNCHANGED <<forgotten, leaving>>
<1> USE DEF presence, mail, news, history, sweeper, Registering, Announcing
<1>0. LocalTypes /\ isNew[r] \in BOOLEAN
  BY DEF LocalsOK, LocalTypes
<1>1. ASSUME NEW a \in Agents, RegisterWasPresent(r, a)
      PROVE  LocalsOK' /\ OthersKept(r) /\ Effect(r) /\ UNCHANGED <<forgotten, leaving>>
  <2>1. /\ who' = [who EXCEPT ![r] = a] /\ Goto(r, "is") /\ pc[r] = "idle"
        /\ wasKnown' = [wasKnown EXCEPT ![r] = WasPresent(a)]
        /\ UNCHANGED <<lapsed, isNew, msg, todo, age>>
        /\ UNCHANGED <<known, since, expired, roster, joins, lives, silent, overtaken, forgotten, leaving>>
    BY <1>1 DEF RegisterWasPresent
  <2>2. isNew[r] = FALSE
    BY <2>1 DEF LocalsOK
  <2>3. LocalTypes' /\ OthersKept(r) /\ pc'[r] = "is" /\ isNew'[r] = FALSE /\ who'[r] = a
    BY <1>0, <2>1, <2>2 DEF LocalTypes, WasPresent, Goto, OthersKept, Labels
  <2>4. LocalsOK'
    BY <2>1, <2>3, GotoOK
  <2> QED BY <2>1, <2>3, <2>4 DEF Effect, Calm
<1>2. CASE RegisterIsPresent(r)
  <2>1. /\ pc[r] = "is" /\ Goto(r, "touch") /\ who[r] \in Agents
        /\ wasKnown' = [wasKnown EXCEPT ![r] = FALSE]
        /\ lapsed' = [lapsed EXCEPT ![r] = wasKnown[r] /\ ~IsPresent(who[r])]
        /\ UNCHANGED <<who, isNew, msg, todo, age>>
        /\ UNCHANGED <<known, since, expired, roster, joins, lives, silent, overtaken, forgotten, leaving>>
    BY <1>2 DEF RegisterIsPresent, LocalsOK
  <2>2. isNew[r] = FALSE
    BY <2>1 DEF LocalsOK
  <2>3. LocalTypes' /\ OthersKept(r) /\ pc'[r] = "touch" /\ isNew'[r] = FALSE
    BY <1>0, <2>1, <2>2 DEF LocalTypes, Goto, OthersKept, Labels
  <2>4. LocalsOK'
    BY <2>1, <2>3, GotoOK
  <2> QED BY <2>1, <2>3, <2>4 DEF Effect, Calm
<1>3. CASE RegisterTouch(r)
  <2>1. /\ pc[r] = "touch" /\ TouchAgent(who[r], TRUE) /\ who[r] \in Agents
        /\ UNCHANGED <<roster, joins, inbox, owed, sent, forgotten, leaving>>
    BY <1>3 DEF RegisterTouch, LocalsOK
  <2>2. CASE lapsed[r]
    <3>1. /\ isNew' = [isNew EXCEPT ![r] = FreshRecord(r)] /\ Goto(r, "again")
          /\ lapsed' = [lapsed EXCEPT ![r] = FALSE] /\ UNCHANGED <<who, wasKnown, msg, todo, age>>
      BY <1>3, <2>2 DEF RegisterTouch
    <3>2. FreshRecord(r) \in BOOLEAN
      BY DEF FreshRecord
    <3>3. LocalTypes' /\ OthersKept(r) /\ pc'[r] = "again" /\ isNew'[r] = FreshRecord(r)
      BY <1>0, <3>1, <3>2 DEF LocalTypes, Goto, OthersKept, Labels
    <3>4. LocalsOK'
      BY <2>1, <3>1, <3>3, GotoOK
    <3> QED BY <2>1, <3>1, <3>3, <3>4 DEF Effect, LoudTouch, FreshRecord
  <2>3. CASE ~lapsed[r] /\ FreshRecord(r)
    <3>1. /\ isNew' = [isNew EXCEPT ![r] = TRUE] /\ Goto(r, "join")
          /\ UNCHANGED <<who, wasKnown, lapsed, msg, todo, age>>
      BY <1>3, <2>3 DEF RegisterTouch
    <3>2. LocalTypes' /\ OthersKept(r) /\ pc'[r] = "join" /\ isNew'[r] = TRUE
      BY <1>0, <3>1 DEF LocalTypes, Goto, OthersKept, Labels
    <3>3. LocalsOK'
      BY <2>1, <3>1, <3>2, GotoOK
    <3> QED BY <2>1, <2>3, <3>1, <3>2, <3>3 DEF Effect, LoudTouch, FreshRecord
  <2>4. CASE ~lapsed[r] /\ ~FreshRecord(r)
    <3>1. Return(r)
      BY <1>3, <2>4 DEF RegisterTouch
    <3> QED BY <2>1, <2>4, <3>1, ReturnOK DEF Effect, LoudTouch, FreshRecord
  <2> QED BY <2>2, <2>3, <2>4
<1>4. CASE RegisterReannounce(r)
  <2>1. /\ pc[r] = "again" /\ roster' = roster \cup {who[r]} /\ silent' = silent \ {who[r]}
        /\ UNCHANGED <<known, since, expired, inbox, owed, sent, lives, overtaken, joins, forgotten, leaving>>
        /\ who[r] \in Agents
    BY <1>4 DEF RegisterReannounce, LocalsOK
  <2>2. CASE isNew[r]
    <3>1. Goto(r, "join") /\ UNCHANGED <<who, wasKnown, lapsed, isNew, msg, todo, age>>
      BY <1>4, <2>2 DEF RegisterReannounce
    <3>2. LocalTypes' /\ OthersKept(r) /\ pc'[r] = "join"
      BY <1>0, <3>1 DEF LocalTypes, Goto, OthersKept, Labels
    <3>3. LocalsOK'
      BY <2>1, <2>2, <3>1, <3>2, GotoOK
    <3> QED BY <1>0, <2>1, <2>2, <3>1, <3>2, <3>3 DEF Effect, Announces
  <2>3. CASE ~isNew[r]
    <3>1. Return(r)
      BY <1>4, <2>3 DEF RegisterReannounce
    <3> QED BY <2>1, <2>3, <3>1, ReturnOK DEF Effect, Announces
  <2> QED BY <2>2, <2>3
<1>5. CASE RegisterAnnounce(r)
  <2>1. /\ pc[r] = "join" /\ roster' = roster \cup {who[r]} /\ silent' = silent \ {who[r]}
        /\ joins' = [joins EXCEPT ![who[r]] = @ + 1] /\ Return(r)
        /\ UNCHANGED <<known, since, expired, inbox, owed, sent, lives, overtaken, forgotten, leaving>>
    BY <1>5 DEF RegisterAnnounce
  <2>2. isNew[r]
    BY <2>1 DEF LocalsOK
  <2> QED BY <2>1, <2>2, ReturnOK DEF Effect, Announces
<1> QED BY <1>1, <1>2, <1>3, <1>4, <1>5 DEF Register

-----------------------------------------------------------------------------
MailTypes ==
  /\ inbox \in [Agents -> SUBSET Messages] /\ owed \in [Agents -> SUBSET Messages]
  /\ sent \subseteq Messages

(* What a handler does to the mail: nothing that is owed leaves the inbox,  *)
(* and nothing is owed to an agent that is not known.                       *)
MailKept ==
  \A a \in Agents : /\ owed[a] \subseteq inbox[a] => owed'[a] \subseteq inbox'[a]
                    /\ a \notin known /\ owed[a] = {} => owed'[a] = {}

(* Register touches no mail. *)
LEMMA RegisterMail ==
  ASSUME NEW r \in Requests, Register(r), MailTypes PROVE MailTypes' /\ MailKept
<1>1. UNCHANGED <<inbox, owed, sent>>
  BY DEF Register, RegisterWasPresent, RegisterIsPresent, RegisterTouch, RegisterReannounce,
         RegisterAnnounce, mail
<1> QED BY <1>1 DEF MailTypes, MailKept

(* The recipients are noted, or there are none. *)
LEMMA DispatchOK ==
  ASSUME LocalsOK, NEW r \in Requests, pc[r] = "authed", NEW T \in SUBSET Agents, NEW m \in Messages,
         Dispatch(r, T, m)
  PROVE  LocalsOK' /\ OthersKept(r) /\ pc'[r] \notin Announcing /\ isNew'[r] = FALSE
<1>1. CASE T = {}
  BY <1>1, ReturnOK DEF Dispatch, Announcing
<1>2. CASE T # {}
  <2>1. /\ msg' = [msg EXCEPT ![r] = m] /\ todo' = [todo EXCEPT ![r] = T] /\ Goto(r, "deliver")
        /\ UNCHANGED <<who, wasKnown, lapsed, isNew, age>>
    BY <1>2 DEF Dispatch
  <2>2. who[r] \in Agents /\ isNew[r] = FALSE
    BY DEF LocalsOK, Announcing
  <2>3. LocalTypes' /\ OthersKept(r) /\ pc'[r] = "deliver" /\ msg'[r] = m
        /\ \A q \in Requests : q # r => msg'[q] = msg[q]
    BY <2>1 DEF LocalsOK, LocalTypes, Goto, OthersKept, Labels
  <2>4. LocalsOK'
    BY <2>1, <2>2, <2>3, GotoOK
  <2> QED BY <2>1, <2>2, <2>3, <2>4 DEF Announcing
<1> QED BY <1>1, <1>2

(* The steps of the other handlers. *)
LEMMA AuthedEffect ==
  ASSUME LocalsOK, MailTypes, known \subseteq Agents, NEW r \in Requests, Authed(r)
  PROVE  /\ LocalsOK' /\ OthersKept(r) /\ Effect(r) /\ UNCHANGED <<forgotten, leaving>>
         /\ MailTypes' /\ MailKept
<1> USE DEF presence, mail, news, history, sweeper, Announcing
<1>0. LocalTypes
  BY DEF LocalsOK, LocalTypes
<1>n. pc[r] \in {"idle", "authed", "drain", "deliver"} => isNew[r] = FALSE
  BY DEF LocalsOK
<1>1. ASSUME NEW a \in Agents, RefreshPresence(r, a)
      PROVE  /\ LocalsOK' /\ OthersKept(r) /\ Effect(r) /\ UNCHANGED <<forgotten, leaving>>
             /\ MailTypes' /\ MailKept
  <2>1. /\ pc[r] = "idle" /\ TouchAgent(a, FALSE) /\ who' = [who EXCEPT ![r] = a] /\ Goto(r, "authed")
        /\ UNCHANGED <<inbox, owed, sent, wasKnown, lapsed, isNew, msg, todo, age>>
        /\ UNCHANGED <<roster, joins, forgotten, leaving>>
    BY <1>1 DEF RefreshPresence
  <2>2. LocalTypes' /\ OthersKept(r) /\ pc'[r] = "authed" /\ who'[r] = a
    BY <1>0, <2>1 DEF LocalTypes, Goto, OthersKept, Labels
  <2>3. LocalsOK'
    BY <1>n, <2>1, <2>2, GotoOK
  <2>4. Effect(r)
    BY <1>n, <2>1, <2>2 DEF Effect, SilentTouch
  <2> QED BY <2>1, <2>2, <2>3, <2>4 DEF MailTypes, MailKept
<1>2. CASE MailboxTouch(r)
  <2>1. /\ pc[r] = "authed" /\ TouchAgent(who[r], FALSE) /\ Goto(r, "drain")
        /\ UNCHANGED <<inbox, owed, sent, who, wasKnown, lapsed, isNew, msg, todo, age>>
        /\ UNCHANGED <<roster, joins, forgotten, leaving>>
    BY <1>2 DEF MailboxTouch
  <2>2. LocalTypes' /\ OthersKept(r) /\ pc'[r] = "drain" /\ who[r] \in Agents
    BY <1>0, <2>1 DEF LocalTypes, Goto, OthersKept, Labels, LocalsOK
  <2>3. LocalsOK'
    BY <1>n, <2>1, <2>2, GotoOK
  <2>4. Effect(r)
    BY <1>n, <2>1, <2>2 DEF Effect, SilentTouch
  <2> QED BY <2>1, <2>2, <2>3, <2>4 DEF MailTypes, MailKept
<1>3. CASE AuthedReturn(r)
  <2>1. /\ pc[r] = "authed" /\ Return(r) /\ UNCHANGED <<inbox, owed, sent, forgotten, leaving>>
        /\ UNCHANGED <<known, since, expired, roster, joins, lives, silent, overtaken>>
    BY <1>3 DEF AuthedReturn
  <2>2. LocalsOK' /\ OthersKept(r) /\ pc'[r] = "idle" /\ isNew'[r] = FALSE
    BY <2>1, ReturnOK
  <2> QED BY <2>1, <2>2 DEF MailTypes, MailKept, Effect, Calm
<1>4. ASSUME pc[r] = "drain", NEW S \in SUBSET inbox[who[r]], DrainMailbox(r, S)
      PROVE  /\ LocalsOK' /\ OthersKept(r) /\ Effect(r) /\ UNCHANGED <<forgotten, leaving>>
             /\ MailTypes' /\ MailKept
  <2>1. /\ Return(r) /\ UNCHANGED <<sent, forgotten, leaving>>
        /\ inbox' = [inbox EXCEPT ![who[r]] = @ \ S] /\ owed' = [owed EXCEPT ![who[r]] = @ \ S]
        /\ UNCHANGED <<known, since, expired, roster, joins, lives, silent, overtaken>>
    BY <1>4 DEF DrainMailbox
  <2>2. LocalsOK' /\ OthersKept(r) /\ pc'[r] = "idle" /\ isNew'[r] = FALSE
    BY <2>1, ReturnOK
  <2>3. MailTypes' /\ MailKept
    BY <2>1 DEF MailTypes, MailKept
  <2> QED BY <1>4, <2>1, <2>2, <2>3 DEF Effect, Calm
<1>5. ASSUME NEW a \in Agents, NEW m \in Messages, SendMessage(r, a, m)
      PROVE  /\ LocalsOK' /\ OthersKept(r) /\ Effect(r) /\ UNCHANGED <<forgotten, leaving>>
             /\ MailTypes' /\ MailKept
  <2>1. /\ pc[r] = "authed" /\ UNCHANGED <<inbox, owed, forgotten, leaving>>
        /\ UNCHANGED <<known, since, expired, roster, joins, lives, silent, overtaken>>
    BY <1>5 DEF SendMessage
  <2>2. CASE a \in known
    <3>1. Dispatch(r, {a}, m)
      BY <1>5, <2>2 DEF SendMessage
    <3>2. LocalsOK' /\ OthersKept(r) /\ pc'[r] \notin Announcing /\ isNew'[r] = FALSE
      BY <2>1, <3>1, DispatchOK
    <3>3. MailTypes' /\ MailKept
      BY <2>1, <3>1 DEF Dispatch, MailTypes, MailKept
    <3> QED BY <2>1, <3>2, <3>3 DEF Effect, Calm
  <2>3. CASE a \notin known
    <3>1. Return(r) /\ sent' = sent
      BY <1>5, <2>3 DEF SendMessage
    <3>2. LocalsOK' /\ OthersKept(r) /\ pc'[r] = "idle" /\ isNew'[r] = FALSE
      BY <3>1, ReturnOK
    <3>3. MailTypes' /\ MailKept
      BY <2>1, <3>1 DEF MailTypes, MailKept
    <3> QED BY <2>1, <3>2, <3>3 DEF Effect, Calm
  <2> QED BY <2>2, <2>3
<1>6. ASSUME NEW m \in Messages, Broadcast(r, m)
      PROVE  /\ LocalsOK' /\ OthersKept(r) /\ Effect(r) /\ UNCHANGED <<forgotten, leaving>>
             /\ MailTypes' /\ MailKept
  <2>1. /\ pc[r] = "authed" /\ UNCHANGED <<inbox, owed, forgotten, leaving>>
        /\ UNCHANGED <<known, since, expired, roster, joins, lives, silent, overtaken>>
        /\ Dispatch(r, known \ {who[r]}, m)
    BY <1>6 DEF Broadcast
  <2>2. known \ {who[r]} \in SUBSET Agents
    OBVIOUS
  <2>3. LocalsOK' /\ OthersKept(r) /\ pc'[r] \notin Announcing /\ isNew'[r] = FALSE
    BY <2>1, <2>2, DispatchOK
  <2>4. MailTypes' /\ MailKept
    BY <2>1 DEF Dispatch, MailTypes, MailKept
  <2> QED BY <2>1, <2>3, <2>4 DEF Effect, Calm
<1>7. ASSUME NEW a \in Agents, DeliverToAgentMailbox(r, a)
      PROVE  /\ LocalsOK' /\ OthersKept(r) /\ Effect(r) /\ UNCHANGED <<forgotten, leaving>>
             /\ MailTypes' /\ MailKept
  <2>1. /\ pc[r] = "deliver" /\ UNCHANGED <<sent, forgotten, leaving>>
        /\ UNCHANGED <<known, since, expired, roster, joins, lives, silent, overtaken>>
        /\ inbox' = [inbox EXCEPT ![a] = @ \cup {msg[r]}]
        /\ owed' = IF a \in known THEN [owed EXCEPT ![a] = @ \cup {msg[r]}] ELSE owed
    BY <1>7 DEF DeliverToAgentMailbox
  <2>2. msg[r] \in Messages /\ who[r] \in Agents
    BY <2>1 DEF LocalsOK
  <2>3. MailTypes' /\ MailKept
    <3>1. CASE a \in known
      BY <2>1, <2>2, <3>1 DEF MailTypes, MailKept
    <3>2. CASE a \notin known
      BY <2>1, <2>2, <3>2 DEF MailTypes, MailKept
    <3> QED BY <3>1, <3>2
  <2>4. CASE todo[r] = {a}
    <3>1. LocalsOK' /\ OthersKept(r) /\ pc'[r] = "idle" /\ isNew'[r] = FALSE
      BY <1>7, <2>4, ReturnOK DEF DeliverToAgentMailbox
    <3> QED BY <2>1, <2>3, <3>1 DEF Effect, Calm
  <2>5. CASE todo[r] # {a}
    <3>1. todo' = [todo EXCEPT ![r] = @ \ {a}] /\ UNCHANGED <<pc, who, wasKnown, lapsed, isNew, msg, age>>
      BY <1>7, <2>5 DEF DeliverToAgentMailbox
    <3>2. LocalTypes' /\ OthersKept(r)
      BY <1>0, <3>1 DEF LocalTypes, OthersKept
    <3>3. LocalsOK'
      BY <1>n, <2>1, <2>2, <3>1, <3>2, GotoOK
    <3> QED BY <1>n, <2>1, <2>3, <3>1, <3>2, <3>3 DEF Effect, Calm
  <2> QED BY <2>4, <2>5
<1> QED BY <1>1, <1>2, <1>3, <1>4, <1>5, <1>6, <1>7 DEF Authed

-----------------------------------------------------------------------------
(* The tracker, the mail and the histories have their types. *)
StoresOK ==
  /\ PresenceTypeOK /\ MailTypes
  /\ forgotten \subseteq Agents /\ leaving \in Agents \cup {NoAgent}
  /\ roster \subseteq Agents /\ silent \subseteq Agents /\ overtaken \subseteq Agents
  /\ lives \in [Agents -> 0..MaxLives] /\ joins \in [Agents -> Nat]

(* The bound on lives: an agent that may be forgotten has a life left, and  *)
(* expired agents were silent for the TTL.                                  *)
LivesOK ==
  /\ \A a \in expired : since[a] >= TTL
  /\ \A a \in Agents : a \notin known \/ (since[a] >= ForgetAfter /\ since[a] # 0) => lives[a] < MaxLives

(* The constants are numbers, and no handler outlasts the horizon. *)
LEMMA HorizonType ==
  /\ Horizon \in Nat /\ TTL \in Nat /\ ForgetAfter \in Nat /\ TTL # 0 /\ MaxLives \in Nat
  /\ HandlerMax \in Nat /\ HandlerMax < Horizon /\ MaxLives # 0
  /\ \A n \in Nat : n >= TTL /\ n >= ForgetAfter => n >= Horizon
BY PresenceAssumption, MembershipAssumption DEF Horizon

(* What Touch does, with its histories. *)
LEMMA TouchEffect ==
  ASSUME StoresOK, LivesOK, NEW a \in Agents, NEW b \in BOOLEAN, TouchAgent(a, b)
  PROVE  /\ known' = known \cup {a} /\ since'[a] = 0 /\ expired' = expired \ {a}
         /\ \A c \in Agents : c # a => since'[c] = since[c] /\ lives'[c] = lives[c]
         /\ PresenceTypeOK' /\ lives' \in [Agents -> 0..MaxLives]
         /\ \A c \in Agents : lives'[c] >= lives[c] /\ lives'[c] \in Nat
         /\ a \in known => UNCHANGED <<lives, silent, overtaken>>
         /\ a \notin known => /\ lives'[a] = lives[a] + 1
                              /\ silent' = (IF b THEN silent ELSE silent \cup {a})
                              /\ overtaken' = (IF a \in forgotten \cup {leaving}
                                               THEN overtaken \cup {a} ELSE overtaken)
<1>0. since \in [Agents -> 0..Horizon] /\ lives \in [Agents -> 0..MaxLives]
      /\ known \subseteq Agents /\ expired \subseteq known
  BY DEF StoresOK, PresenceTypeOK
<1>1. known' = known \cup {a} /\ since' = [since EXCEPT ![a] = 0] /\ expired' = expired \ {a}
  BY DEF TouchAgent, Touch
<1>2. PresenceTypeOK' /\ since'[a] = 0 /\ \A c \in Agents : c # a => since'[c] = since[c]
  BY <1>0, <1>1, HorizonType DEF PresenceTypeOK
<1>3. CASE a \in known
  <2>1. UNCHANGED <<lives, silent, overtaken>>
    BY <1>3 DEF TouchAgent, history
  <2>2. \A c \in Agents : lives'[c] >= lives[c] /\ lives'[c] \in Nat
    BY <1>0, <2>1, HorizonType
  <2> QED BY <1>0, <1>1, <1>2, <1>3, <2>1, <2>2
<1>4. CASE a \notin known
  <2>1. /\ lives' = [lives EXCEPT ![a] = @ + 1]
        /\ silent' = (IF b THEN silent ELSE silent \cup {a})
        /\ overtaken' = (IF a \in forgotten \cup {leaving} THEN overtaken \cup {a} ELSE overtaken)
    BY <1>4 DEF TouchAgent
  <2>2. lives[a] < MaxLives
    BY <1>4 DEF LivesOK
  <2>3. lives[a] + 1 \in 0..MaxLives
    BY <1>0, <2>2, HorizonType
  <2>4. lives' \in [Agents -> 0..MaxLives] /\ lives'[a] = lives[a] + 1
        /\ \A c \in Agents : c # a => lives'[c] = lives[c]
    BY <1>0, <2>1, <2>3
  <2>5. \A c \in Agents : lives'[c] >= lives[c] /\ lives'[c] \in Nat
    <3>1. \A c \in Agents : lives[c] \in Nat
      BY <1>0, HorizonType
    <3> QED BY <2>4, <3>1
  <2> QED BY <1>0, <1>1, <1>2, <1>4, <2>1, <2>4, <2>5
<1> QED BY <1>3, <1>4

(* Those whom the sweep forgets were silent up to the horizon. *)
LEMMA ForgettingOld ==
  ASSUME StoresOK, LivesOK
  PROVE  /\ Forgetting \subseteq known /\ Forgetting \subseteq Agents
         /\ \A a \in Forgetting : since[a] >= Horizon /\ lives[a] < MaxLives
<1>0. since \in [Agents -> 0..Horizon] /\ known \subseteq Agents /\ expired \subseteq known
  BY DEF StoresOK, PresenceTypeOK
<1>1. Forgetting \subseteq known
  BY <1>0 DEF Forgetting, Expiring
<1>2. ASSUME NEW a \in Forgetting PROVE since[a] >= Horizon /\ lives[a] < MaxLives
  <2>1. a \in Agents /\ since[a] \in Nat /\ since[a] >= ForgetAfter
    BY <1>0, <1>1, HorizonType DEF Forgetting
  <2>2. since[a] >= TTL
    <3>1. CASE a \in expired
      BY <3>1 DEF LivesOK
    <3>2. CASE a \in Expiring
      BY <2>1, <3>2, HorizonType DEF Expiring, IsPresent
    <3> QED BY <3>1, <3>2 DEF Forgetting
  <2>3. since[a] # 0
    BY <2>1, <2>2, HorizonType
  <2> QED BY <2>1, <2>2, <2>3, HorizonType DEF LivesOK
<1> QED BY <1>0, <1>1, <1>2

(* The handlers keep StoresOK and LivesOK. *)
LEMMA StoresHandler ==
  ASSUME StoresOK, LivesOK, LocalsOK, NEW r \in Requests, Effect(r), MailTypes',
         UNCHANGED <<forgotten, leaving>>
  PROVE  StoresOK' /\ LivesOK'
<1>0. known \subseteq Agents /\ expired \subseteq known /\ NoAgent \notin Agents
  BY MembershipAssumption DEF StoresOK, PresenceTypeOK
<1>1. CASE Calm(r)
  BY <1>1 DEF Calm, StoresOK, LivesOK, PresenceTypeOK
<1>2. ASSUME NEW a \in Agents, NEW b \in BOOLEAN, TouchAgent(a, b), UNCHANGED <<roster, joins>>
      PROVE  StoresOK' /\ LivesOK'
  <2>1. StoresOK'
    <3>1. silent' \subseteq Agents /\ overtaken' \subseteq Agents
      BY <1>2, TouchEffect DEF StoresOK
    <3> QED BY <1>2, <3>1, TouchEffect DEF StoresOK
  <2>2. \A c \in expired' : since'[c] >= TTL
    BY <1>0, <1>2, TouchEffect DEF LivesOK
  <2>3. ASSUME NEW c \in Agents, c \notin known' \/ (since'[c] >= ForgetAfter /\ since'[c] # 0)
        PROVE  lives'[c] < MaxLives
    <3>1. c # a /\ since'[c] = since[c] /\ lives'[c] = lives[c]
      BY <1>2, <2>3, TouchEffect
    <3> QED BY <1>2, <2>3, <3>1, TouchEffect DEF LivesOK
  <2> QED BY <2>1, <2>2, <2>3 DEF LivesOK
<1>3. CASE SilentTouch(r)
  BY <1>2, <1>3 DEF SilentTouch
<1>4. CASE LoudTouch(r)
  <2>1. who[r] \in Agents
    BY <1>4 DEF LoudTouch, LocalsOK
  <2> QED BY <1>2, <1>4, <2>1 DEF LoudTouch
<1>5. CASE Announces(r)
  <2>1. who[r] \in Agents
    BY <1>5 DEF Announces, LocalsOK
  <2>2. joins' \in [Agents -> Nat]
    BY <1>5, <2>1 DEF Announces, StoresOK
  <2>3. roster' \subseteq Agents /\ silent' \subseteq Agents
        /\ UNCHANGED <<known, since, expired, lives, overtaken>>
    BY <1>5, <2>1 DEF Announces, StoresOK
  <2> QED BY <2>2, <2>3 DEF StoresOK, LivesOK, PresenceTypeOK
<1> QED BY <1>1, <1>3, <1>4, <1>5 DEF Effect

(* So do the clock, ... *)
LEMMA StoresTick == ASSUME StoresOK, LivesOK, Tick PROVE StoresOK' /\ LivesOK'
<1>0. since \in [Agents -> 0..Horizon] /\ known \subseteq Agents /\ expired \subseteq known
      /\ lives \in [Agents -> 0..MaxLives]
  BY DEF StoresOK, PresenceTypeOK
<1>1. /\ since' = [a \in Agents |-> IF a \in known /\ since[a] < Horizon THEN since[a] + 1 ELSE since[a]]
      /\ UNCHANGED <<known, expired, inbox, owed, sent, forgotten, leaving, roster, joins, lives, silent, overtaken>>
      /\ \A a \in known : since[a] + 1 >= ForgetAfter => lives[a] < MaxLives
  BY DEF Tick, PassTime, mail, sweeper, news, history
<1>2. \A a \in Agents : /\ since'[a] \in 0..Horizon /\ since'[a] >= since[a] /\ since'[a] <= since[a] + 1
                        /\ a \notin known => since'[a] = since[a]
  BY <1>0, <1>1, HorizonType
<1>3. since' \in [Agents -> 0..Horizon]
  BY <1>1, <1>2
<1>4. \A a \in expired : since'[a] >= TTL
  BY <1>0, <1>2, HorizonType DEF LivesOK
<1>5. \A a \in Agents : a \notin known \/ (since'[a] >= ForgetAfter /\ since'[a] # 0) => lives[a] < MaxLives
  BY <1>0, <1>1, <1>2, HorizonType DEF LivesOK
<1> QED BY <1>0, <1>1, <1>3, <1>4, <1>5 DEF StoresOK, LivesOK, PresenceTypeOK, MailTypes

(* ... the sweep ... *)
LEMMA StoresSweep == ASSUME StoresOK, LivesOK, Sweep PROVE StoresOK' /\ LivesOK'
<1>0. since \in [Agents -> 0..Horizon] /\ known \subseteq Agents /\ expired \subseteq known
  BY DEF StoresOK, PresenceTypeOK
<1>1. /\ known' = known \ Forgetting /\ expired' = (expired \cup Expiring) \ Forgetting
      /\ since' = [a \in Agents |-> IF a \in Forgetting THEN 0 ELSE since[a]]
      /\ forgotten' = Forgetting /\ silent' = silent \ Forgetting /\ overtaken' = overtaken \ Forgetting
      /\ owed' = [a \in Agents |-> IF a \in Forgetting THEN {} ELSE owed[a]]
      /\ UNCHANGED <<inbox, sent, leaving, roster, joins, lives>>
  BY DEF Sweep, SweepPresence, news
<1>2. Forgetting \subseteq known /\ Forgetting \subseteq Agents /\ Expiring \subseteq known
      /\ \A a \in Forgetting : lives[a] < MaxLives
  BY ForgettingOld DEF Expiring
<1>3. since' \in [Agents -> 0..Horizon] /\ known' \subseteq Agents /\ expired' \subseteq known'
  BY <1>0, <1>1, <1>2, HorizonType
<1>4. MailTypes'
  BY <1>1 DEF StoresOK, MailTypes
<1>5. StoresOK'
  BY <1>1, <1>2, <1>3, <1>4 DEF StoresOK, PresenceTypeOK
<1>6. \A a \in expired' : since'[a] >= TTL
  <2>1. \A a \in Expiring : since[a] >= TTL
    BY <1>0, HorizonType DEF Expiring, IsPresent
  <2> QED BY <1>0, <1>1, <1>2, <2>1 DEF LivesOK
<1>7. \A a \in Agents : a \notin known' \/ (since'[a] >= ForgetAfter /\ since'[a] # 0) => lives'[a] < MaxLives
  BY <1>1, <1>2 DEF LivesOK
<1> QED BY <1>5, <1>6, <1>7 DEF LivesOK

(* ... and the forget hook. *)
LEMMA StoresForget ==
  ASSUME StoresOK, LivesOK, ForgetDeleteBox \/ (\E a \in Agents : ForgetAnnounce(a)) \/ UNCHANGED vars
  PROVE  StoresOK' /\ LivesOK'
<1> USE DEF presence, mail, news, history, sweeper
<1>1. UNCHANGED <<known, since, expired, owed, sent, joins, lives, silent, overtaken>>
  BY DEF ForgetDeleteBox, ForgetAnnounce, vars
<1>2. forgotten' \subseteq Agents /\ leaving' \in Agents \cup {NoAgent} /\ roster' \subseteq Agents
  BY DEF StoresOK, ForgetDeleteBox, ForgetAnnounce, vars
<1>3. inbox' \in [Agents -> SUBSET Messages]
  BY DEF StoresOK, MailTypes, ForgetDeleteBox, ForgetAnnounce, vars
<1> QED BY <1>1, <1>2, <1>3 DEF StoresOK, LivesOK, PresenceTypeOK, MailTypes

(* The steps of Membership: a handler, or one that leaves the handlers be. *)
BaseOK == LocalsOK /\ StoresOK /\ LivesOK

(* A handler's step has one of the four effects and keeps what is owed. *)
LEMMA HandlerStep ==
  ASSUME BaseOK, NEW r \in Requests, Register(r) \/ Authed(r)
  PROVE  BaseOK' /\ OthersKept(r) /\ Effect(r) /\ MailKept /\ UNCHANGED <<forgotten, leaving>>
<1>0. known \subseteq Agents /\ MailTypes
  BY DEF BaseOK, StoresOK, PresenceTypeOK
<1>1. LocalsOK' /\ OthersKept(r) /\ Effect(r) /\ MailTypes' /\ MailKept /\ UNCHANGED <<forgotten, leaving>>
  BY <1>0, RegisterEffect, RegisterMail, AuthedEffect DEF BaseOK
<1> QED BY <1>1, StoresHandler DEF BaseOK

Others == Sweep \/ ForgetDeleteBox \/ (\E a \in Agents : ForgetAnnounce(a)) \/ UNCHANGED vars

(* The sweep, the forget hook and stuttering leave the handlers be. *)
LEMMA OtherStep ==
  ASSUME BaseOK, Others PROVE BaseOK' /\ UNCHANGED <<pc, who, isNew, age, joins, lives>>
<1>1. UNCHANGED <<pc, who, wasKnown, lapsed, isNew, msg, todo, age, joins, lives>>
  BY DEF Others, Sweep, ForgetDeleteBox, ForgetAnnounce, vars, locals, news, history
<1>2. LocalsOK'
  BY <1>1 DEF BaseOK, LocalsOK
<1> QED BY <1>1, <1>2, StoresSweep, StoresForget DEF BaseOK, Others

(* Time makes every handler older and changes nothing else of it. *)
LEMMA TickStep ==
  ASSUME BaseOK, Tick
  PROVE  /\ BaseOK' /\ UNCHANGED <<pc, who, isNew, joins, lives>>
         /\ \A r \in Requests : pc[r] # "idle" => age'[r] = age[r] + 1
<1>1. /\ UNCHANGED <<pc, who, wasKnown, lapsed, isNew, msg, todo, joins, lives>>
      /\ age' = [r \in Requests |-> IF pc[r] = "idle" THEN 0 ELSE age[r] + 1]
      /\ \A r \in Requests : pc[r] # "idle" => age[r] < HandlerMax
  BY DEF Tick, locals, news, history
<1>2. \A r \in Requests : age[r] \in 0..HandlerMax
  BY DEF BaseOK, LocalsOK
<1>3. age' \in [Requests -> 0..HandlerMax]
  BY <1>1, <1>2, HorizonType
<1>4. LocalsOK'
  BY <1>1, <1>3 DEF BaseOK, LocalsOK
<1> QED BY <1>1, <1>4, StoresTick DEF BaseOK

(* A step is time, one of those, or a handler's. *)
LEMMA NextCases ==
  ASSUME [Next]_vars PROVE Tick \/ Others \/ \E r \in Requests : Register(r) \/ Authed(r)
BY DEF Next, Others

(* The variables but for joins have their types after every step. *)
LEMMA BaseInvariant == Spec => []BaseOK
<1>1. Init => BaseOK
  <2> SUFFICES ASSUME Init PROVE BaseOK
    OBVIOUS
  <2>1. 0 \in 0..HandlerMax /\ 0 \in 0..MaxLives /\ 0 \in 0..Horizon /\ 0 < MaxLives
    BY HorizonType
  <2>2. LocalsOK
    BY <2>1 DEF Init, LocalsOK, Labels, Registering, Announcing
  <2>3. StoresOK
    BY <2>1 DEF Init, StoresOK, PresenceInit, PresenceTypeOK, MailTypes
  <2>4. LivesOK
    BY <2>1 DEF Init, LivesOK, PresenceInit
  <2> QED BY <2>2, <2>3, <2>4 DEF BaseOK
<1>2. BaseOK /\ [Next]_vars => BaseOK'
  BY HandlerStep, OtherStep, TickStep, NextCases
<1> QED BY <1>1, <1>2, PTL DEF Spec

-----------------------------------------------------------------------------
(* The handlers that are to announce a join of agent a. *)
New(a) == {r \in Requests : who[r] = a /\ isNew[r]}

JoinOK == \A a \in Agents : IsFiniteSet(New(a)) /\ joins[a] + Cardinality(New(a)) <= lives[a]

(* A set of handlers that gains or loses r. *)
LEMMA NewStep ==
  ASSUME BaseOK, BaseOK', NEW r \in Requests, OthersKept(r), NEW a \in Agents, IsFiniteSet(New(a))
  PROVE  /\ IsFiniteSet(New(a)') /\ Cardinality(New(a)) \in Nat /\ Cardinality(New(a)') \in Nat
         /\ r \in New(a) /\ r \notin New(a)' => Cardinality(New(a)') + 1 = Cardinality(New(a))
         /\ r \notin New(a) /\ r \in New(a)' => Cardinality(New(a)') = Cardinality(New(a)) + 1
         /\ (r \in New(a) <=> r \in New(a)') => Cardinality(New(a)') = Cardinality(New(a))
<1> DEFINE old == New(a)
           new == New(a)'
<1>1. new \ {r} = old \ {r}
  BY DEF New, OthersKept
<1> HIDE DEF old, new
<1>2. IsFiniteSet(old)
  BY DEF old
<1>3. IsFiniteSet(old \ {r}) /\ Cardinality(old) \in Nat /\ Cardinality(old \ {r}) \in Nat
      /\ Cardinality(old \ {r}) = IF r \in old THEN Cardinality(old) - 1 ELSE Cardinality(old)
  BY <1>2, FS_RemoveElement, FS_CardinalityType
<1>4. CASE r \in new
  <2>1. new = (old \ {r}) \cup {r} /\ r \notin old \ {r}
    BY <1>1, <1>4
  <2>2. IsFiniteSet(new) /\ Cardinality(new) = Cardinality(old \ {r}) + 1
    BY <1>3, <2>1, FS_AddElement
  <2> QED BY <1>3, <1>4, <2>2 DEF old, new
<1>5. CASE r \notin new
  <2>1. new = old \ {r}
    BY <1>1, <1>5
  <2> QED BY <1>3, <1>5, <2>1 DEF old, new
<1> QED BY <1>4, <1>5

(* Every step keeps JoinOK: a record that Register creates pays for the     *)
(* join that it announces.                                                  *)
LEMMA JoinStep == ASSUME BaseOK, JoinOK, [Next]_vars PROVE JoinOK'
<1>1. CASE Tick \/ Others
  <2>1. UNCHANGED <<who, isNew, joins, lives>>
    BY <1>1, TickStep, OtherStep
  <2> QED BY <2>1 DEF JoinOK, New
<1>2. ASSUME NEW r \in Requests, Register(r) \/ Authed(r) PROVE JoinOK'
  <2>0. BaseOK' /\ OthersKept(r) /\ Effect(r)
    BY <1>2, HandlerStep
  <2>t. isNew \in [Requests -> BOOLEAN] /\ lives \in [Agents -> 0..MaxLives] /\ joins \in [Agents -> Nat]
        /\ LocalsOK /\ StoresOK /\ LivesOK
    BY DEF BaseOK, LocalsOK, StoresOK
  <2> SUFFICES ASSUME NEW a \in Agents
               PROVE  IsFiniteSet(New(a)') /\ joins'[a] + Cardinality(New(a)') <= lives'[a]
    BY DEF JoinOK, New
  <2>1. /\ IsFiniteSet(New(a)) /\ joins[a] + Cardinality(New(a)) <= lives[a]
        /\ joins[a] \in Nat /\ lives[a] \in Nat
    BY <2>t, HorizonType DEF JoinOK
  <2>2. CASE Calm(r) \/ SilentTouch(r)
    <3>1. r \notin New(a) /\ r \notin New(a)'
      BY <2>2, <2>t DEF Calm, SilentTouch, New, LocalsOK
    <3>2. joins' = joins /\ lives'[a] >= lives[a] /\ lives'[a] \in Nat
      <4>1. CASE Calm(r)
        BY <2>1, <4>1 DEF Calm
      <4>2. CASE SilentTouch(r)
        <5>1. PICK c \in Agents : TouchAgent(c, FALSE)
          BY <4>2 DEF SilentTouch
        <5>2. lives' \in [Agents -> 0..MaxLives] /\ lives'[a] >= lives[a]
          BY <2>1, <2>t, <5>1, TouchEffect
        <5> QED BY <4>2, <5>2, HorizonType DEF SilentTouch
      <4> QED BY <2>2, <4>1, <4>2
    <3> QED BY <2>0, <2>1, <3>1, <3>2, NewStep
  <2>3. CASE LoudTouch(r)
    <3>1. who[r] \in Agents /\ r \notin New(a)
      BY <2>3, <2>t DEF LoudTouch, LocalsOK, New, Announcing
    <3>2. joins' = joins /\ lives' \in [Agents -> 0..MaxLives] /\ TouchAgent(who[r], TRUE)
      BY <2>3, <2>t, <3>1, TouchEffect DEF LoudTouch
    <3>3. lives'[a] >= lives[a] /\ lives'[a] \in Nat
      BY <2>1, <2>t, <3>1, <3>2, TouchEffect, HorizonType
    <3>4. CASE r \in New(a)'
      <4>1. who'[r] = a /\ isNew'[r]
        BY <3>4 DEF New
      <4>2. who[r] = a /\ a \notin known
        BY <2>3, <4>1 DEF LoudTouch
      <4>3. lives'[a] = lives[a] + 1
        BY <2>t, <3>1, <3>2, <4>2, TouchEffect
      <4> QED BY <2>0, <2>1, <3>1, <3>2, <3>4, <4>3, NewStep
    <3>5. CASE r \notin New(a)'
      BY <2>0, <2>1, <3>1, <3>2, <3>3, <3>5, NewStep
    <3> QED BY <3>4, <3>5
  <2>4. CASE Announces(r)
    <3>1. lives' = lives
      BY <2>4 DEF Announces
    <3>2. CASE joins' = joins /\ (isNew[r] => isNew'[r] /\ who'[r] = who[r]) /\ (~isNew[r] => ~isNew'[r])
      <4>1. r \in New(a) <=> r \in New(a)'
        BY <3>2 DEF New
      <4> QED BY <2>0, <2>1, <3>1, <3>2, <4>1, NewStep
    <3>3. CASE joins' = [joins EXCEPT ![who[r]] = @ + 1] /\ isNew[r] /\ ~isNew'[r]
      <4>1. r \notin New(a)'
        BY <3>3 DEF New
      <4>2. CASE who[r] = a
        <5>1. r \in New(a) /\ joins'[a] = joins[a] + 1
          BY <2>t, <3>3, <4>2 DEF New
        <5> QED BY <2>0, <2>1, <3>1, <4>1, <5>1, NewStep
      <4>3. CASE who[r] # a
        <5>1. r \notin New(a) /\ joins'[a] = joins[a]
          BY <2>t, <3>3, <4>3 DEF New
        <5> QED BY <2>0, <2>1, <3>1, <4>1, <5>1, NewStep
      <4> QED BY <4>2, <4>3
    <3> QED BY <2>4, <2>t, <3>2, <3>3 DEF Announces
  <2> QED BY <2>0, <2>2, <2>3, <2>4 DEF Effect
<1> QED BY <1>1, <1>2, NextCases

(* JoinOK is an invariant of Membership. *)
LEMMA JoinInvariant == Spec => []JoinOK
<1>1. Init => JoinOK
  <2> SUFFICES ASSUME Init, NEW a \in Agents
               PROVE  IsFiniteSet(New(a)) /\ joins[a] + Cardinality(New(a)) <= lives[a]
    BY DEF JoinOK
  <2>1. New(a) = {} /\ joins[a] = 0 /\ lives[a] = 0
    BY DEF Init, New
  <2> QED BY <2>1, FS_EmptySet
<1>2. BaseOK /\ JoinOK /\ [Next]_vars => JoinOK'
  BY JoinStep
<1> QED BY <1>1, <1>2, BaseInvariant, PTL DEF Spec

(* Concurrent first heartbeats of an agent announce one join: Touch reports *)
(* a new record to one caller, and each join has its record.                *)
THEOREM OneJoinPerRecord == Spec => []JoinedOnce
<1>1. JoinOK => JoinedOnce
  BY DEF JoinOK, JoinedOnce, New
<1> QED BY <1>1, JoinInvariant, PTL

(* Membership keeps its variables in their types; in particular no more     *)
(* joins are announced than presence records are created.                   *)
THEOREM TypeCorrect == Spec => []TypeOK
<1>1. BaseOK /\ JoinOK => TypeOK
  <2> SUFFICES ASSUME BaseOK, JoinOK PROVE TypeOK
    OBVIOUS
  <2>1. LocalsOK /\ StoresOK
    BY DEF BaseOK
  <2>2. ASSUME NEW a \in Agents PROVE joins[a] \in 0..MaxLives
    <3>1. Cardinality(New(a)) \in Nat /\ joins[a] + Cardinality(New(a)) <= lives[a]
      BY FS_CardinalityType DEF JoinOK
    <3> QED BY <2>1, <3>1, HorizonType DEF StoresOK
  <2>3. joins \in [Agents -> 0..MaxLives]
    BY <2>1, <2>2 DEF StoresOK
  <2> QED BY <2>1, <2>3 DEF TypeOK, LocalsOK, StoresOK, Labels, MailTypes
<1> QED BY <1>1, BaseInvariant, JoinInvariant, PTL

-----------------------------------------------------------------------------
(* Whom the forget hook is about was told goodbye: it is unknown and owed   *)
(* nothing, or it came back before the hook had finished.                   *)
GoneOK ==
  \A a \in Agents : a \in forgotten \cup {leaving} =>
                      a \in overtaken \/ (a \notin known /\ owed[a] = {})

MailOK == GoneOK /\ OfflineMailKept

(* A touch takes an agent out of GoneOK only by marking it. *)
LEMMA GoneTouch ==
  ASSUME BaseOK, GoneOK, NEW a \in Agents, NEW b \in BOOLEAN, TouchAgent(a, b),
         UNCHANGED <<owed, forgotten, leaving>>
  PROVE  GoneOK' /\ overtaken \subseteq overtaken'
<1>0. StoresOK /\ LivesOK
  BY DEF BaseOK
<1>1. overtaken \subseteq overtaken'
  BY <1>0, TouchEffect
<1>2. ASSUME NEW c \in Agents, c \in forgotten \cup {leaving}
      PROVE  c \in overtaken' \/ (c \notin known' /\ owed[c] = {})
  <2>1. CASE c = a /\ a \notin known
    BY <1>0, <1>2, <2>1, TouchEffect
  <2>2. CASE c = a /\ a \in known
    BY <1>1, <1>2, <2>2 DEF GoneOK
  <2>3. CASE c # a
    BY <1>0, <1>1, <1>2, <2>3, TouchEffect DEF GoneOK
  <2> QED BY <2>1, <2>2, <2>3
<1> QED BY <1>1, <1>2 DEF GoneOK

(* Every step keeps MailOK. *)
LEMMA MailStep == ASSUME BaseOK, MailOK, [Next]_vars PROVE MailOK'
<1> USE DEF presence, mail, news, history, sweeper
<1>0. NoAgent \notin Agents /\ LocalsOK /\ StoresOK /\ LivesOK
  BY MembershipAssumption DEF BaseOK
<1>1. CASE Tick \/ UNCHANGED vars
  <2>1. UNCHANGED <<known, inbox, owed, forgotten, leaving, overtaken>>
    BY <1>1 DEF Tick, PassTime, vars
  <2> QED BY <2>1 DEF MailOK, GoneOK, OfflineMailKept
<1>2. ASSUME NEW r \in Requests, Register(r) \/ Authed(r) PROVE MailOK'
  <2>1. Effect(r) /\ MailKept /\ UNCHANGED <<forgotten, leaving>>
    BY <1>2, HandlerStep
  <2>2. GoneOK' /\ overtaken \subseteq overtaken'
    <3>1. CASE Calm(r) \/ Announces(r)
      <4>1. UNCHANGED <<known, overtaken>>
        BY <3>1 DEF Calm, Announces
      <4> QED BY <2>1, <4>1 DEF MailOK, GoneOK, MailKept
    <3>2. CASE SilentTouch(r)
      BY <2>1, <3>2, GoneTouch DEF SilentTouch, MailOK
    <3>3. CASE LoudTouch(r)
      <4>1. who[r] \in Agents
        BY <1>0, <3>3 DEF LoudTouch, LocalsOK
      <4> QED BY <2>1, <3>3, <4>1, GoneTouch DEF LoudTouch, MailOK
    <3> QED BY <2>1, <3>1, <3>2, <3>3 DEF Effect
  <2>3. OfflineMailKept'
    BY <2>1, <2>2 DEF MailOK, OfflineMailKept, MailKept
  <2> QED BY <2>2, <2>3 DEF MailOK
<1>3. CASE Sweep
  <2>1. /\ known' = known \ Forgetting /\ forgotten' = Forgetting /\ overtaken' = overtaken \ Forgetting
        /\ owed' = [a \in Agents |-> IF a \in Forgetting THEN {} ELSE owed[a]]
        /\ inbox' = inbox /\ leaving' = NoAgent
    BY <1>3 DEF Sweep, SweepPresence
  <2>2. GoneOK'
    BY <1>0, <2>1 DEF GoneOK
  <2>3. OfflineMailKept'
    BY <2>1 DEF MailOK, OfflineMailKept
  <2> QED BY <2>2, <2>3 DEF MailOK
<1>4. ASSUME NEW a \in Agents, ForgetAnnounce(a) PROVE MailOK'
  BY <1>4 DEF ForgetAnnounce, MailOK, GoneOK, OfflineMailKept
<1>5. CASE ForgetDeleteBox
  <2>1. /\ leaving \in Agents /\ inbox' = [inbox EXCEPT ![leaving] = {}] /\ leaving' = NoAgent
        /\ UNCHANGED <<known, owed, forgotten, overtaken>>
    BY <1>0, <1>5 DEF ForgetDeleteBox, StoresOK
  <2>2. GoneOK'
    BY <1>0, <2>1 DEF MailOK, GoneOK
  <2>3. leaving \in overtaken \/ owed[leaving] = {}
    BY <2>1 DEF MailOK, GoneOK
  <2>4. OfflineMailKept'
    BY <1>0, <2>1, <2>3 DEF MailOK, OfflineMailKept, StoresOK, MailTypes
  <2> QED BY <2>2, <2>4 DEF MailOK
<1> QED BY <1>1, <1>2, <1>3, <1>4, <1>5, NextCases DEF Others

(* MailOK is an invariant of Membership. *)
LEMMA MailInvariant == Spec => []MailOK
<1>1. Init => MailOK
  BY MembershipAssumption DEF Init, MailOK, GoneOK, OfflineMailKept
<1>2. BaseOK /\ MailOK /\ [Next]_vars => MailOK'
  BY MailStep
<1> QED BY <1>1, <1>2, BaseInvariant, PTL DEF Spec

(* Going offline costs no mail: what was delivered to a known agent and not *)
(* read is in its mailbox, unless the agent came back during its onForget.  *)
THEOREM MailSurvivesOffline == Spec => []OfflineMailKept
<1>1. MailOK => OfflineMailKept
  BY DEF MailOK
<1> QED BY <1>1, MailInvariant, PTL

-----------------------------------------------------------------------------
(* Whom a handler is about to announce it has touched not long ago, so the  *)
(* sweep cannot forget it first.                                            *)
FreshOK ==
  \A r \in Requests : pc[r] \in Announcing => who[r] \in known /\ since[who[r]] <= age[r]

(* A member that is announced and unknown is about to be announced as gone, *)
(* and one that is known and not announced is about to be announced.        *)
RosterOK ==
  /\ \A a \in roster : a \in known \cup forgotten
  /\ \A a \in known : \/ a \in silent \cup overtaken \cup roster
                      \/ \E r \in Requests : who[r] = a /\ pc[r] \in Announcing

(* The presence record of a handler that is to announce is younger than the *)
(* horizon.                                                                 *)
LEMMA FreshKept == ASSUME BaseOK, FreshOK, NEW r \in Requests, pc[r] \in Announcing
                   PROVE  who[r] \notin Forgetting /\ who[r] \in Agents
<1>1. StoresOK /\ LivesOK /\ LocalsOK
  BY DEF BaseOK
<1>2. who[r] \in Agents /\ age[r] \in 0..HandlerMax
  BY <1>1 DEF LocalsOK, Announcing
<1>3. since[who[r]] \in Nat
  BY <1>1, <1>2, HorizonType DEF StoresOK, PresenceTypeOK
<1>4. since[who[r]] < Horizon
  BY <1>2, <1>3, HorizonType DEF FreshOK
<1> QED BY <1>1, <1>2, <1>3, <1>4, ForgettingOld, HorizonType

(* Every step keeps FreshOK. *)
LEMMA FreshStep == ASSUME BaseOK, FreshOK, [Next]_vars PROVE FreshOK'
<1>0. LocalsOK /\ StoresOK /\ LivesOK
  BY DEF BaseOK
<1>t. /\ \A r \in Requests : age[r] \in Nat /\ (pc[r] \in Announcing => who[r] \in Agents /\ pc[r] # "idle")
      /\ \A a \in Agents : since[a] \in Nat
  BY <1>0, HorizonType DEF LocalsOK, StoresOK, PresenceTypeOK, Announcing
<1>1. CASE Tick
  <2>1. UNCHANGED <<pc, who>> /\ \A r \in Requests : pc[r] # "idle" => age'[r] = age[r] + 1
    BY <1>1, TickStep
  <2>2. known' = known /\ \A a \in Agents : since'[a] \in {since[a], since[a] + 1}
    BY <1>1 DEF Tick, PassTime
  <2> QED BY <1>t, <2>1, <2>2 DEF FreshOK
<1>2. CASE Others
  <2>1. UNCHANGED <<pc, who, age>>
    BY <1>2, OtherStep
  <2>2. CASE Sweep
    <3>1. known' = known \ Forgetting
          /\ since' = [a \in Agents |-> IF a \in Forgetting THEN 0 ELSE since[a]]
      BY <2>2 DEF Sweep, SweepPresence
    <3> QED BY <2>1, <3>1, FreshKept DEF FreshOK
  <2>3. CASE ~Sweep
    <3>1. UNCHANGED <<known, since>>
      BY <1>2, <2>3 DEF Others, ForgetDeleteBox, ForgetAnnounce, vars, presence
    <3> QED BY <2>1, <3>1 DEF FreshOK
  <2> QED BY <2>2, <2>3
<1>3. ASSUME NEW r \in Requests, Register(r) \/ Authed(r) PROVE FreshOK'
  <2>1. OthersKept(r) /\ Effect(r)
    BY <1>3, HandlerStep
  <2>2. ASSUME NEW a \in Agents, NEW b \in BOOLEAN, TouchAgent(a, b), NEW q \in Requests,
               pc[q] \in Announcing
        PROVE  who[q] \in known' /\ since'[who[q]] <= age[q]
    <3>1. known' = known \cup {a} /\ since'[a] = 0 /\ \A c \in Agents : c # a => since'[c] = since[c]
      BY <1>0, <2>2, TouchEffect
    <3> QED BY <1>t, <2>2, <3>1 DEF FreshOK
  <2>3. CASE Calm(r)
    BY <2>1, <2>3 DEF Calm, FreshOK, OthersKept
  <2>4. CASE SilentTouch(r)
    BY <2>1, <2>2, <2>4 DEF SilentTouch, FreshOK, OthersKept
  <2>5. CASE LoudTouch(r)
    <3>1. who[r] \in Agents /\ TouchAgent(who[r], TRUE)
      BY <1>0, <2>5 DEF LoudTouch, LocalsOK
    <3>2. who[r] \in known' /\ since'[who[r]] = 0
      BY <1>0, <3>1, TouchEffect
    <3>3. ASSUME NEW q \in Requests, pc'[q] \in Announcing
          PROVE  who'[q] \in known' /\ since'[who'[q]] <= age'[q]
      <4>1. CASE q = r
        <5>1. who'[r] = who[r] /\ age'[r] = age[r]
          BY <2>5, <3>3, <4>1 DEF LoudTouch, Announcing
        <5> QED BY <1>t, <3>2, <4>1, <5>1
      <4>2. CASE q # r
        BY <2>1, <2>2, <3>1, <3>3, <4>2 DEF OthersKept
      <4> QED BY <4>1, <4>2
    <3> QED BY <3>3 DEF FreshOK
  <2>6. CASE Announces(r)
    <3>1. UNCHANGED <<known, since>> /\ pc[r] \in Announcing
      BY <2>6 DEF Announces, Announcing
    <3>2. pc'[r] \in Announcing => who'[r] = who[r] /\ age'[r] = age[r]
      BY <2>6 DEF Announces, Announcing
    <3> QED BY <2>1, <3>1, <3>2 DEF FreshOK, OthersKept
  <2> QED BY <2>1, <2>3, <2>4, <2>5, <2>6 DEF Effect
<1> QED BY <1>1, <1>2, <1>3, NextCases

(* Every step keeps RosterOK. *)
LEMMA RosterStep == ASSUME BaseOK, MailOK, FreshOK, RosterOK, [Next]_vars PROVE RosterOK'
<1> USE DEF presence, mail, news, history, sweeper
<1>0. LocalsOK /\ StoresOK /\ LivesOK
  BY DEF BaseOK
<1>1. CASE Tick \/ UNCHANGED vars \/ ForgetDeleteBox
  <2>1. UNCHANGED <<known, roster, forgotten, silent, overtaken, pc, who>>
    BY <1>1 DEF Tick, PassTime, vars, ForgetDeleteBox, locals
  <2> QED BY <2>1 DEF RosterOK
<1>2. CASE Sweep
  <2>1. /\ known' = known \ Forgetting /\ forgotten' = Forgetting /\ forgotten = {}
        /\ overtaken' = overtaken \ Forgetting /\ silent' = silent \ Forgetting
        /\ UNCHANGED <<roster, pc, who>>
    BY <1>2 DEF Sweep, SweepPresence, locals
  <2> QED BY <2>1 DEF RosterOK
<1>3. ASSUME NEW a \in Agents, ForgetAnnounce(a) PROVE RosterOK'
  <2>1. /\ a \in forgotten /\ forgotten' = forgotten \ {a} /\ roster' = roster \ {a}
        /\ UNCHANGED <<known, silent, overtaken, pc, who>>
    BY <1>3 DEF ForgetAnnounce, locals
  <2>2. a \in known => a \in overtaken
    BY <2>1 DEF MailOK, GoneOK
  <2> QED BY <2>1, <2>2 DEF RosterOK
<1>4. ASSUME NEW r \in Requests, Register(r) \/ Authed(r) PROVE RosterOK'
  <2>1. OthersKept(r) /\ Effect(r) /\ forgotten' = forgotten
    BY <1>4, HandlerStep
  <2>2. ASSUME pc[r] \notin Announcing, NEW a \in Agents,
               \E q \in Requests : who[q] = a /\ pc[q] \in Announcing
        PROVE  \E q \in Requests : who'[q] = a /\ pc'[q] \in Announcing
    BY <2>1, <2>2 DEF OthersKept
  <2>3. CASE Calm(r)
    <3>1. UNCHANGED <<known, roster, silent, overtaken>> /\ pc[r] \notin Announcing
      BY <2>3 DEF Calm
    <3> QED BY <1>0, <2>1, <2>2, <3>1 DEF RosterOK, StoresOK, PresenceTypeOK
  <2>4. ASSUME NEW a \in Agents, NEW b \in BOOLEAN, TouchAgent(a, b), roster' = roster,
               pc[r] \notin Announcing,
               a \in known \/ ~b \/ (who'[r] = a /\ pc'[r] \in Announcing)
        PROVE  RosterOK'
    <3>1. known' = known \cup {a} /\ silent \subseteq silent' /\ overtaken \subseteq overtaken'
          /\ (a \notin known /\ ~b => a \in silent')
      BY <1>0, <2>4, TouchEffect
    <3>2. \A c \in roster' : c \in known' \cup forgotten'
      BY <2>1, <2>4, <3>1 DEF RosterOK
    <3>3. ASSUME NEW c \in known'
          PROVE  \/ c \in silent' \cup overtaken' \cup roster'
                 \/ \E q \in Requests : who'[q] = c /\ pc'[q] \in Announcing
      <4>1. CASE c \in known
        <5>1. c \in Agents
          BY <1>0, <4>1 DEF StoresOK, PresenceTypeOK
        <5> QED BY <2>2, <2>4, <3>1, <4>1, <5>1 DEF RosterOK
      <4>2. CASE c \notin known
        BY <2>4, <3>1, <3>3, <4>2
      <4> QED BY <4>1, <4>2
    <3> QED BY <3>2, <3>3 DEF RosterOK
  <2>5. CASE SilentTouch(r)
    BY <2>4, <2>5 DEF SilentTouch
  <2>6. CASE LoudTouch(r)
    <3>1. who[r] \in Agents /\ pc[r] \notin Announcing
      BY <1>0, <2>6 DEF LoudTouch, LocalsOK, Announcing
    <3> QED BY <2>4, <2>6, <3>1 DEF LoudTouch
  <2>7. CASE Announces(r)
    <3>1. /\ roster' = roster \cup {who[r]} /\ silent' = silent \ {who[r]} /\ UNCHANGED <<known, overtaken>>
          /\ pc[r] \in Announcing
      BY <2>7 DEF Announces, Announcing
    <3>2. who[r] \in known
      BY <3>1 DEF FreshOK
    <3>3. ASSUME NEW c \in known', c # who[r]
          PROVE  \/ c \in silent' \cup overtaken' \cup roster'
                 \/ \E q \in Requests : who'[q] = c /\ pc'[q] \in Announcing
      BY <2>1, <3>1, <3>3 DEF RosterOK, OthersKept
    <3> QED BY <2>1, <3>1, <3>2, <3>3 DEF RosterOK
  <2> QED BY <2>1, <2>3, <2>5, <2>6, <2>7 DEF Effect
<1> QED BY <1>1, <1>2, <1>3, <1>4, NextCases DEF Others

(* With nothing about an agent under way, the announcements agree with the  *)
(* tracker, unless a request created the record without announcing it or    *)
(* the agent came back during its onForget.                                 *)
THEOREM AnnouncementsAgree == Spec => []RosterAgrees
<1>1. Init => FreshOK /\ RosterOK
  BY DEF Init, FreshOK, RosterOK, PresenceInit, Announcing
<1>2. BaseOK /\ MailOK /\ FreshOK /\ RosterOK /\ [Next]_vars => (FreshOK /\ RosterOK)'
  BY FreshStep, RosterStep
<1>3. RosterOK => RosterAgrees
  BY DEF RosterOK, RosterAgrees, Settled, Announcing, Registering
<1> QED BY <1>1, <1>2, <1>3, BaseInvariant, MailInvariant, PTL DEF Spec
=============================================================================
