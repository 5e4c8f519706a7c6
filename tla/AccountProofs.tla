---------------------------- MODULE AccountProofs ----------------------------
(***************************************************************************)
(* Proofs about what is kept of a user who uses the API, for any number of *)
(* sessions, passwords, overlapping requests, API processes and losses of  *)
(* Redis, and any quota and times; and about a user's email and limits,    *)
(* for any number of messages, webhooks, rules and filters, and any plans. *)
(***************************************************************************)
EXTENDS Sessions, KeptGrant, UsageMeter, Courier, PlanRoom, FiniteSetTheorems, TLAPS

-----------------------------------------------------------------------------
(* Sessions.                                                               *)

\* A session not started is in no list of sessions, and a sign-in in progress
\* has not started its session.
NotListedUnborn ==
    \A c \in Cookies :
        /\ session[c] = "unborn" => c \notin index /\ c \notin ending.ids
        /\ signin[c] # 0 => session[c] = "unborn"

\* Every live session is in the index; once an ending has listed the index, it is
\* in the list, is one kept, or began since; and once it has deleted those listed,
\* it is one of the last two.
LiveListed ==
    \A c \in Cookies : Alive(c) =>
        /\ c \in index
        /\ ending.step = "listed" => c \in ending.ids \cup ending.keep \cup raced
        /\ ending.step = "ended" => c \in ending.keep \cup raced

\* OldSessionsEnd, while a change is in progress too.
OldRaced ==
    \A c \in Cookies : Alive(c) /\ (gone \/ proof[c] < password) => c \in raced

\* A change of password still has one to set.
SetsAPassword == ending.kind = "password" => password < LastPassword

SessionsInv == SessionsTypeOK /\ NotListedUnborn /\ LiveListed /\ OldRaced /\ SetsAPassword

-----------------------------------------------------------------------------
(* The steps.                                                              *)

EndingRecords ==
    [kind : {"none", "password", "delete"}, step : {"none", "set", "listed", "ended"},
     keep : SUBSET Cookies, ids : SUBSET Cookies]

LEMMA NothingEnds ==
    /\ NoEnding \in EndingRecords /\ NoEnding.ids = {} /\ NoEnding.step = "none"
    /\ NoForgetting \in [step : {"none", "listed", "got"}, ids : SUBSET Cookies]
<1>1. {} \in SUBSET Cookies
  OBVIOUS
<1> QED  BY <1>1 DEF NoEnding, NoForgetting, EndingRecords

LEMMA SessionsInitHolds == SessionsInit => SessionsInv
<1> SUFFICES ASSUME SessionsInit PROVE SessionsInv
  OBVIOUS
<1>1. 1 \in 1 .. LastPassword /\ 0 \in 0 .. LastPassword
  BY SessionsAssumption DEF SessionsAssumption
<1>2. SessionsTypeOK
  BY <1>1, NothingEnds DEF SessionsInit, SessionsTypeOK, EndingRecords
<1> QED  BY <1>2, NothingEnds
         DEF SessionsInit, SessionsInv, NotListedUnborn, LiveListed, OldRaced, SetsAPassword,
             NoEnding, Alive

\* A step that ends sessions, starts none and takes the others from no list.
LEMMA NoneStarts ==
    ASSUME SessionsInv, SessionsTypeOK',
           \A c \in Cookies : session'[c] = session[c] \/ (Alive(c) /\ session'[c] = "over"),
           \A c \in Cookies : session'[c] = "live" /\ c \in index => c \in index',
           index' \subseteq index,
           UNCHANGED <<password, gone, signin, ending, proof, raced>>
    PROVE  SessionsInv'
<1>1. NotListedUnborn'
  BY DEF SessionsInv, NotListedUnborn, Alive
<1>2. LiveListed' /\ OldRaced' /\ SetsAPassword'
  BY DEF SessionsInv, LiveListed, OldRaced, SetsAPassword, Alive
<1> QED  BY <1>1, <1>2 DEF SessionsInv

LEMMA VerifyPasswordHolds ==
    ASSUME SessionsInv, NEW c \in Cookies, VerifyPassword(c)
    PROVE  SessionsInv'
<1>1. SessionsTypeOK'
  BY SessionsAssumption
  DEF SessionsAssumption, SessionsInv, SessionsTypeOK, VerifyPassword
<1>2. NotListedUnborn'
  BY DEF SessionsInv, SessionsTypeOK, NotListedUnborn, VerifyPassword
<1>3. LiveListed' /\ OldRaced' /\ SetsAPassword'
  BY DEF SessionsInv, LiveListed, OldRaced, SetsAPassword, Alive, VerifyPassword
<1> QED  BY <1>1, <1>2, <1>3 DEF SessionsInv

LEMMA StartSessionHolds ==
    ASSUME SessionsInv, NEW c \in Cookies, StartSession(c)
    PROVE  SessionsInv'
<1>1. SessionsTypeOK'
  <2>1. password' \in 1 .. LastPassword
    BY SessionsAssumption DEF SessionsAssumption, SessionsInv, SessionsTypeOK, StartSession
  <2>2. raced' \subseteq Cookies
    BY DEF SessionsInv, SessionsTypeOK, StartSession
  <2> QED  BY <2>1, <2>2, SessionsAssumption
           DEF SessionsAssumption, SessionsInv, SessionsTypeOK, StartSession
<1>2. /\ session' = [session EXCEPT ![c] = "live"] /\ index' = index \cup {c}
      /\ session[c] = "unborn" /\ c \notin ending.ids /\ ending' = ending
  BY DEF StartSession, SessionsInv, NotListedUnborn
<1>3. NotListedUnborn'
  BY <1>2 DEF SessionsInv, SessionsTypeOK, NotListedUnborn, StartSession
<1>4. raced \subseteq raced' /\ (ending.step \in {"listed", "ended"} => c \in raced')
  BY DEF StartSession
<1>5. LiveListed'
  BY <1>2, <1>4 DEF SessionsInv, SessionsTypeOK, LiveListed, Alive
<1>6. OldRaced'
  <2>1. signin[c] \in Nat /\ password \in Nat /\ password' \in Nat /\ password' <= password
    BY DEF SessionsInv, SessionsTypeOK, StartSession
  <2>2. proof' = [proof EXCEPT ![c] = signin[c]]
        /\ (gone \/ signin[c] < password => c \in raced')
    BY DEF StartSession
  <2>3. ASSUME NEW b \in Cookies, b # c, Alive(b)', gone' \/ proof'[b] < password'
        PROVE  b \in raced'
    <3>1. Alive(b) /\ proof'[b] = proof[b] /\ proof[b] \in Nat
      BY <1>2, <2>2, <2>3 DEF SessionsInv, SessionsTypeOK, Alive
    <3>2. gone \/ proof[b] < password
      BY <2>1, <2>3, <3>1 DEF StartSession
    <3> QED  BY <1>4, <3>1, <3>2 DEF SessionsInv, OldRaced
  <2>4. ASSUME gone' \/ proof'[c] < password' PROVE c \in raced'
    <3>1. proof'[c] = signin[c]
      BY <2>2 DEF SessionsInv, SessionsTypeOK
    <3>2. gone \/ signin[c] < password
      BY <2>1, <2>4, <3>1 DEF StartSession
    <3> QED  BY <2>2, <3>2
  <2> QED  BY <2>3, <2>4 DEF OldRaced
<1>7. SetsAPassword'
  BY DEF SessionsInv, SessionsTypeOK, SetsAPassword, StartSession
<1> QED  BY <1>1, <1>3, <1>5, <1>6, <1>7 DEF SessionsInv

LEMMA EndingHolds ==
    ASSUME SessionsInv, EndingLists \/ EndingDeletes \/ EndingCommits \/ EndingFails
    PROVE  SessionsInv'
<1>1. SessionsTypeOK'
  <2>1. ending \in EndingRecords
    BY DEF SessionsInv, SessionsTypeOK, EndingRecords
  <2>2. ending' \in EndingRecords
    <3>1. CASE EndingLists
      <4>1. index \ ending.keep \in SUBSET Cookies
        BY DEF SessionsInv, SessionsTypeOK
      <4> QED  BY <2>1, <3>1, <4>1 DEF EndingLists, EndingRecords
    <3>2. CASE EndingDeletes
      BY <2>1, <3>2 DEF EndingDeletes, EndingRecords
    <3>3. CASE EndingCommits \/ EndingFails
      BY <3>3, NothingEnds DEF EndingCommits, EndingFails, Commit
    <3> QED  BY <3>1, <3>2, <3>3
  <2>3. session' \in [Cookies -> {"unborn", "live", "over"}] /\ index' \subseteq Cookies
    BY DEF SessionsInv, SessionsTypeOK, EndingLists, EndingDeletes, EndingCommits, EndingFails,
           Commit
  <2>4. password' \in 1 .. LastPassword /\ gone' \in BOOLEAN
    <3>1. CASE EndingCommits
      <4>1. ending.kind = "password" => password < LastPassword
        BY <3>1 DEF SessionsInv, SetsAPassword, EndingCommits
      <4> QED  BY <3>1, <4>1, SessionsAssumption
               DEF SessionsAssumption, SessionsInv, SessionsTypeOK, EndingCommits, Commit
    <3>2. CASE ~EndingCommits
      BY <3>2 DEF SessionsInv, SessionsTypeOK, EndingLists, EndingDeletes, EndingFails
    <3> QED  BY <3>1, <3>2
  <2>5. raced' \subseteq Cookies
    BY <2>1
    DEF SessionsInv, SessionsTypeOK, EndingRecords, EndingLists, EndingDeletes, EndingCommits,
        EndingFails,
        Commit
  <2> QED  BY <2>2, <2>3, <2>4, <2>5
           DEF SessionsInv, SessionsTypeOK, EndingRecords, EndingLists, EndingDeletes,
               EndingCommits, EndingFails, Commit
<1>2. CASE EndingLists
  BY <1>1, <1>2
  DEF SessionsInv, SessionsTypeOK, NotListedUnborn, LiveListed, OldRaced, SetsAPassword, Alive,
      EndingLists
<1>3. CASE EndingDeletes
  BY <1>1, <1>3
  DEF SessionsInv, SessionsTypeOK, NotListedUnborn, LiveListed, OldRaced, SetsAPassword, Alive,
      EndingDeletes
<1>4. CASE EndingCommits
  BY <1>1, <1>4
  DEF SessionsInv, SessionsTypeOK, NotListedUnborn, LiveListed, OldRaced, SetsAPassword, Alive,
      EndingCommits, Commit,
      NoEnding
<1>5. CASE EndingFails
  BY <1>1, <1>5
  DEF SessionsInv, SessionsTypeOK, NotListedUnborn, LiveListed, OldRaced, SetsAPassword, Alive,
      EndingFails, NoEnding
<1> QED  BY <1>2, <1>3, <1>4, <1>5

LEMMA BeginEndingHolds ==
    ASSUME SessionsInv, NEW kind \in {"password", "delete"},
           NEW keep \in {{}} \cup {{c} : c \in Cookies}, BeginEnding(kind, keep)
    PROVE  SessionsInv'
<1>1. SessionsTypeOK'
  <2>1. keep \in SUBSET Cookies
    OBVIOUS
  <2>2. [NoEnding EXCEPT !.kind = kind, !.step = "set", !.keep = keep] \in EndingRecords
    BY <2>1, NothingEnds DEF EndingRecords
  <2> QED  BY <2>2 DEF SessionsInv, SessionsTypeOK, BeginEnding, EndingRecords
<1> QED  BY <1>1
         DEF SessionsInv, SessionsTypeOK, NotListedUnborn, LiveListed, OldRaced, SetsAPassword,
             Alive, BeginEnding,
             NoEnding

LEMMA SessionsStepHolds == SessionsInv /\ [SessionsNext]_sessionVars => SessionsInv'
<1> SUFFICES ASSUME SessionsInv, [SessionsNext]_sessionVars PROVE SessionsInv'
  OBVIOUS
<1>1. ASSUME NEW c \in Cookies, Logout(c) \/ Expire(c) \/ FindGone(c) PROVE SessionsInv'
  <2>1. SessionsTypeOK'
    BY <1>1 DEF SessionsInv, SessionsTypeOK, Logout, Expire, FindGone
  <2> QED  BY <1>1, <2>1, NoneStarts
           DEF SessionsInv, SessionsTypeOK, Logout, Expire, FindGone, Alive
<1>2. ASSUME NEW c \in Cookies, FindSession(c) \/ KeepGrant(c) PROVE SessionsInv'
  <2>1. SessionsTypeOK'
    BY <1>2 DEF SessionsInv, SessionsTypeOK, FindSession, KeepGrant, WriteBack
  <2> QED  BY <1>2, <2>1, NoneStarts
           DEF SessionsInv, SessionsTypeOK, FindSession, KeepGrant, WriteBack, Alive
<1>3. CASE ForgetLists \/ ForgetReads \/ ForgetWrites
  <2>1. SessionsTypeOK'
    BY <1>3 DEF SessionsInv, SessionsTypeOK, ForgetLists, ForgetReads, ForgetWrites, WriteBack,
                NoForgetting
  <2> QED  BY <1>3, <2>1, NoneStarts
           DEF SessionsInv, SessionsTypeOK, ForgetLists, ForgetReads, ForgetWrites, WriteBack, Alive
<1>4. CASE UNCHANGED sessionVars
  <2>1. SessionsTypeOK'
    BY <1>4 DEF SessionsInv, SessionsTypeOK, sessionVars
  <2> QED  BY <1>4, <2>1, NoneStarts DEF sessionVars
<1> QED  BY <1>1, <1>2, <1>3, <1>4, VerifyPasswordHolds, StartSessionHolds, EndingHolds,
            BeginEndingHolds DEF SessionsNext

-----------------------------------------------------------------------------

\* Whatever was read of it before, a session ended is never started or written
\* back.
THEOREM StaysEnded == SessionsSpec => EndedStaysEnded
<1>1. ASSUME SessionsInv, [SessionsNext]_sessionVars, NEW c \in Cookies, session[c] = "over"
      PROVE  session'[c] = "over"
  <2>1. signin[c] = 0
    BY <1>1 DEF SessionsInv, NotListedUnborn
  <2> QED  BY <1>1, <2>1
           DEF SessionsInv, SessionsTypeOK, SessionsNext, sessionVars, VerifyPassword, StartSession,
               Logout,
               Expire, FindSession, FindGone, KeepGrant, WriteBack, ForgetLists, ForgetReads,
               ForgetWrites, BeginEnding, EndingLists, EndingDeletes, EndingCommits,
               EndingFails,
               Commit, Alive
<1>2. SessionsInv /\ [SessionsNext]_sessionVars =>
        [\A c \in Cookies : session[c] = "over" => session'[c] = "over"]_sessionVars
  BY <1>1
<1> QED  BY SessionsInitHolds, SessionsStepHolds, <1>2, PTL DEF SessionsSpec, EndedStaysEnded

\* After a password change or a deletion no session of before it is live, but the
\* one it came from and those it raced, for any number of sessions and changes.
THEOREM OldEnd == SessionsSpec => []OldSessionsEnd
<1>1. SessionsInv => OldSessionsEnd
  BY DEF SessionsInv, OldRaced, OldSessionsEnd
<1> QED  BY SessionsInitHolds, SessionsStepHolds, <1>1, PTL DEF SessionsSpec

-----------------------------------------------------------------------------
(* KeptGrant.                                                              *)

AskingRecords ==
    [step : {"none", "found", "read"}, record : Records, grant : Grants, at : Seconds]

\* A grant read was the user's no longer ago than a request takes before that.
WasHeld(record, when) ==
    record.readAt # Never => when[record.grant] + RequestTime >= record.readAt

AskingHolds(asked, now, when) ==
    /\ WasHeld(asked.record, when)
    /\ asked.step = "none" \/ now <= asked.at + RequestTime
    /\ asked.step = "read" => when[asked.grant] >= asked.at

GrantInv ==
    /\ GrantTypeOK
    /\ held[granted] = second /\ \A g \in Grants : held[g] <= second
    /\ WasHeld(kept, held)
    /\ \A r \in Requests : AskingHolds(asking[r], second, held)

-----------------------------------------------------------------------------
(* The steps.                                                              *)

LEMMA NothingAsked ==
    ASSUME NEW g \in Grants, NEW now, NEW when
    PROVE  AskingNothing(g) \in AskingRecords /\ AskingHolds(AskingNothing(g), now, when)
<1>1. Never \in Never .. LastSecond /\ 0 \in Seconds
  BY GrantAssumption DEF GrantAssumption, Never, Seconds
<1>2. [grant |-> g, readAt |-> Never] \in Records
  BY <1>1 DEF Records
<1> QED  BY <1>1, <1>2 DEF AskingNothing, AskingRecords, AskingHolds, WasHeld

LEMMA GrantInitHolds == GrantInit => GrantInv
<1> SUFFICES ASSUME GrantInit PROVE GrantInv
  OBVIOUS
<1>1. second \in Seconds /\ Never \in Never .. LastSecond
  BY GrantAssumption DEF GrantAssumption, GrantInit, Seconds, Never
<1>2. GrantTypeOK
  BY <1>1, NothingAsked DEF GrantInit, GrantTypeOK, Records, AskingRecords
<1> QED  BY <1>2, NothingAsked DEF GrantInit, GrantInv, WasHeld

\* What holds of a record goes on holding as grants are held for longer.
LEMMA HeldLonger ==
    ASSUME GrantInv, NEW now \in Seconds, NEW when \in [Grants -> Seconds],
           \A g \in Grants : when[g] >= held[g],
           now = second \/ \A r \in Requests : asking[r].step = "none" \/
                                               now <= asking[r].at + RequestTime
    PROVE  /\ \A record \in Records : WasHeld(record, held) => WasHeld(record, when)
           /\ \A r \in Requests : AskingHolds(asking[r], now, when)
<1>1. ASSUME NEW record \in Records, WasHeld(record, held) PROVE WasHeld(record, when)
  <2>1. /\ record.grant \in Grants /\ record.readAt \in Int
        /\ held[record.grant] \in Int /\ when[record.grant] \in Int /\ RequestTime \in Int
        /\ when[record.grant] >= held[record.grant]
    BY GrantAssumption DEF GrantAssumption, Records, GrantInv, GrantTypeOK, Seconds, Never
  <2> QED  BY <1>1, <2>1 DEF WasHeld
<1>2. ASSUME NEW r \in Requests PROVE AskingHolds(asking[r], now, when)
  <2>1. asking[r] \in AskingRecords /\ AskingHolds(asking[r], second, held)
    BY DEF GrantInv, GrantTypeOK, AskingRecords
  <2>2. asking[r].record \in Records /\ asking[r].grant \in Grants /\ asking[r].at \in Seconds
    BY <2>1 DEF AskingRecords
  <2>3. /\ held[asking[r].grant] \in Int /\ when[asking[r].grant] \in Int /\ asking[r].at \in Int
        /\ when[asking[r].grant] >= held[asking[r].grant]
    BY <2>2 DEF GrantInv, GrantTypeOK, Seconds
  <2> QED  BY <1>1, <2>1, <2>2, <2>3 DEF AskingHolds
<1> QED  BY <1>1, <1>2

\* A step of one request, and what it writes.
LEMMA RequestMoves ==
    ASSUME GrantInv, NEW r \in Requests, NEW asked \in AskingRecords,
           AskingHolds(asked, second, held), asking' = [asking EXCEPT ![r] = asked],
           kept' \in Records, WasHeld(kept', held),
           UNCHANGED <<second, granted, held, forget>>
    PROVE  GrantInv'
<1>1. GrantTypeOK'
  BY DEF GrantInv, GrantTypeOK, AskingRecords
<1>2. ASSUME NEW s \in Requests PROVE AskingHolds(asking'[s], second', held')
  <2>1. asking'[s] = IF s = r THEN asked ELSE asking[s]
    BY DEF GrantInv, GrantTypeOK
  <2> QED  BY <2>1 DEF GrantInv
<1> QED  BY <1>1, <1>2 DEF GrantInv

LEMMA ClockHolds == GrantInv /\ NextSecond => GrantInv'
<1> SUFFICES ASSUME GrantInv, NextSecond PROVE GrantInv'
  OBVIOUS
<1>1. second \in Int /\ LastSecond \in Int /\ 0 <= second /\ second < LastSecond
  BY GrantAssumption DEF GrantAssumption, GrantInv, GrantTypeOK, Seconds, NextSecond
<1>2. second' \in Seconds /\ held' = [held EXCEPT ![granted] = second']
  BY <1>1 DEF NextSecond, Seconds
<1>3. held' \in [Grants -> Seconds] /\ \A g \in Grants : held'[g] >= held[g]
  <2>1. held'[granted] = second + 1
    BY DEF GrantInv, GrantTypeOK, NextSecond
  <2> QED  BY <1>1, <1>2, <2>1 DEF GrantInv, GrantTypeOK, Seconds, NextSecond
<1>4. ASSUME NEW r \in Requests
      PROVE  asking[r].step = "none" \/ second' <= asking[r].at + RequestTime
  <2>1. asking[r].at \in Int /\ RequestTime \in Int
    BY GrantAssumption DEF GrantAssumption, GrantInv, GrantTypeOK, Seconds
  <2> QED  BY <1>1, <2>1 DEF NextSecond
<1>5. /\ \A record \in Records : WasHeld(record, held) => WasHeld(record, held')
      /\ \A r \in Requests : AskingHolds(asking[r], second', held')
  BY <1>2, <1>3, <1>4, HeldLonger
<1>6. GrantTypeOK'
  BY <1>2, <1>3 DEF GrantInv, GrantTypeOK, NextSecond
<1>7. held'[granted'] = second' /\ \A g \in Grants : held'[g] <= second'
  BY <1>1, <1>2 DEF GrantInv, GrantTypeOK, Seconds, NextSecond
<1> QED  BY <1>2, <1>5, <1>6, <1>7 DEF GrantInv, GrantTypeOK, NextSecond

LEMMA ChangeGrantHolds ==
    ASSUME GrantInv, NEW f \in Forgetters, NEW g \in Grants, ChangeGrant(f, g)
    PROVE  GrantInv'
<1>1. held' \in [Grants -> Seconds] /\ \A h \in Grants : held'[h] >= held[h]
  <2>1. held' = [held EXCEPT ![g] = second]
    BY DEF ChangeGrant
  <2> QED  BY <2>1 DEF GrantInv, GrantTypeOK, Seconds
<1>2. /\ \A record \in Records : WasHeld(record, held) => WasHeld(record, held')
      /\ \A r \in Requests : AskingHolds(asking[r], second, held')
  BY <1>1, HeldLonger DEF GrantInv, GrantTypeOK
<1>3. GrantTypeOK'
  BY <1>1 DEF GrantInv, GrantTypeOK, ChangeGrant
<1>4. held'[granted'] = second' /\ \A h \in Grants : held'[h] <= second'
  <2>1. held' = [held EXCEPT ![g] = second] /\ granted' = g /\ second' = second
    BY DEF ChangeGrant
  <2> QED  BY <2>1 DEF GrantInv, GrantTypeOK, Seconds
<1> QED  BY <1>2, <1>3, <1>4 DEF GrantInv, GrantTypeOK, ChangeGrant

LEMMA RequestHolds ==
    ASSUME GrantInv, NEW r \in Requests, Ask(r) \/ AnswerKept(r) \/ ReadGrant(r) \/ AnswerRead(r)
    PROVE  GrantInv'
<1> DEFINE q == asking[r]
<1>1. /\ q \in AskingRecords /\ AskingHolds(q, second, held) /\ granted \in Grants
      /\ kept \in Records /\ WasHeld(kept, held) /\ second \in Seconds
  BY DEF GrantInv, GrantTypeOK, AskingRecords
<1>2. RequestTime \in Nat /\ second \in Int
  BY <1>1, GrantAssumption DEF GrantAssumption, Seconds
<1>3. CASE Ask(r)
  <2> DEFINE asked == [q EXCEPT !.step = "found", !.record = kept, !.at = second]
  <2>1. asked \in AskingRecords /\ asked.step = "found" /\ asked.record = kept /\ asked.at = second
    BY <1>1 DEF AskingRecords
  <2>2. AskingHolds(asked, second, held)
    BY <1>1, <1>2, <2>1 DEF AskingHolds
  <2>3. asking' = [asking EXCEPT ![r] = asked]
    BY <1>3 DEF Ask
  <2> HIDE DEF asked
  <2> QED  BY <1>1, <1>3, <2>1, <2>2, <2>3, RequestMoves DEF Ask
<1>4. CASE AnswerKept(r)
  BY <1>1, <1>4, NothingAsked, RequestMoves DEF AnswerKept
<1>5. CASE ReadGrant(r)
  <2> DEFINE asked == [q EXCEPT !.step = "read", !.grant = granted, !.at = second]
  <2>1. /\ asked \in AskingRecords /\ asked.step = "read" /\ asked.record = q.record
        /\ asked.grant = granted /\ asked.at = second
    BY <1>1 DEF AskingRecords
  <2>2. AskingHolds(asked, second, held)
    BY <1>1, <1>2, <2>1 DEF AskingHolds, GrantInv
  <2>3. asking' = [asking EXCEPT ![r] = asked]
    BY <1>5 DEF ReadGrant
  <2> HIDE DEF asked
  <2> QED  BY <1>1, <1>5, <2>1, <2>2, <2>3, RequestMoves DEF ReadGrant
<1>6. CASE AnswerRead(r)
  <2> DEFINE record == [grant |-> q.grant, readAt |-> second]
  <2>1. second \in Never .. LastSecond /\ q.grant \in Grants /\ q.at \in Seconds
    BY <1>1, GrantAssumption DEF AskingRecords, Seconds, Never, GrantAssumption
  <2>2. record \in Records
    BY <2>1 DEF Records
  <2>3. held[q.grant] \in Int /\ q.at \in Int
    BY <2>1 DEF GrantInv, GrantTypeOK, Seconds
  <2>4. q.step = "read"
    BY <1>6 DEF AnswerRead
  <2>5. WasHeld(record, held)
    BY <1>1, <1>2, <2>3, <2>4 DEF WasHeld, AskingHolds
  <2> QED  BY <1>1, <1>6, <2>2, <2>5, NothingAsked, RequestMoves DEF AnswerRead
<1> QED  BY <1>3, <1>4, <1>5, <1>6

LEMMA ForgetHolds ==
    ASSUME GrantInv, NEW f \in Forgetters, ForgetRead(f) \/ ForgetWrite(f) \/ ForgetFails(f)
    PROVE  GrantInv'
<1>1. kept' \in Records /\ WasHeld(kept', held)
  <2>1. Never \in Never .. LastSecond
    BY GrantAssumption DEF GrantAssumption, Never
  <2>2. [kept EXCEPT !.readAt = Never] \in Records /\ WasHeld([kept EXCEPT !.readAt = Never], held)
    BY <2>1 DEF GrantInv, GrantTypeOK, Records, WasHeld
  <2> QED  BY <2>2 DEF GrantInv, GrantTypeOK, ForgetRead, ForgetWrite, ForgetFails
<1>2. GrantTypeOK'
  BY <1>1 DEF GrantInv, GrantTypeOK, ForgetRead, ForgetWrite, ForgetFails
<1> QED  BY <1>1, <1>2 DEF GrantInv, ForgetRead, ForgetWrite, ForgetFails

LEMMA GrantStepHolds == GrantInv /\ [GrantNext]_grantVars => GrantInv'
<1>1. GrantInv /\ UNCHANGED grantVars => GrantInv'
  <2> SUFFICES ASSUME GrantInv, UNCHANGED grantVars PROVE GrantInv'
    OBVIOUS
  <2>1. GrantTypeOK'
    BY DEF GrantInv, GrantTypeOK, grantVars
  <2> QED  BY <2>1 DEF GrantInv, grantVars
<1> QED  BY <1>1, ClockHolds, ChangeGrantHolds, RequestHolds, ForgetHolds DEF GrantNext

\* No request is answered by a grant that stopped being the user's longer ago
\* than a session keeps one and a request takes, for any times and any number of
\* requests and changes at once.
THEOREM GrantRecent == GrantSpec => []GrantIsRecent
<1>1. ASSUME GrantInv, NEW record \in Records, WasHeld(record, held), record.readAt # Never,
             ~GrantIsStale(record)
      PROVE  second - held[record.grant] < GrantEvery + RequestTime
  <2>1. /\ record.readAt \in Int /\ held[record.grant] \in Int /\ second \in Int
        /\ RequestTime \in Int /\ GrantEvery \in Int
    <3>1. record.grant \in Grants /\ record.readAt \in Never .. LastSecond
      BY DEF Records
    <3> QED  BY <1>1, <3>1, GrantAssumption
             DEF GrantAssumption, GrantInv, GrantTypeOK, Seconds, Never
  <2>2. second - record.readAt < GrantEvery
    BY <1>1, <2>1 DEF GrantIsStale
  <2> QED  BY <1>1, <2>1, <2>2 DEF WasHeld
<1>2. GrantInv => GrantIsRecent
  <2> SUFFICES ASSUME GrantInv, NEW record \in {kept} \cup {asking[r].record : r \in Requests},
                      record.readAt # Never, ~GrantIsStale(record)
               PROVE  second - held[record.grant] < GrantEvery + RequestTime
    BY DEF GrantIsRecent
  <2>1. record \in Records /\ WasHeld(record, held)
    BY DEF GrantInv, GrantTypeOK, AskingHolds
  <2> QED  BY <1>1, <2>1
<1> QED  BY GrantInitHolds, GrantStepHolds, <1>2, PTL DEF GrantSpec

-----------------------------------------------------------------------------
(* UsageMeter.                                                             *)

CallRecords == [step : {"idle", "missed", "read", "seeded", "claiming"}, count : Counts]
FlusherRecords ==
    [step : {"idle", "locked", "moved", "got", "written"}, count : Counts \cup {Missing}]

\* Between two losses the counter counts at least what has been admitted.
Since == IF counter = Missing THEN 0 ELSE counter
CountsAdmitted == admitted <= Quota * losses + Since

\* The row says a warning was claimed before one is sent.
ClaimedFirst == warnings <= (IF usageRow.warned THEN 1 ELSE 0)

MeterInv == MeterTypeOK /\ CountsAdmitted /\ ClaimedFirst

-----------------------------------------------------------------------------
(* Arithmetic.                                                             *)

LEMMA LargerOfTwo ==
    ASSUME NEW a \in Nat, NEW b \in Nat
    PROVE  Max({a, b}) \in {a, b} /\ Max({a, b}) >= a /\ Max({a, b}) >= b
<1>1. \E x \in {a, b} : \A y \in {a, b} : x >= y
  OBVIOUS
<1> QED  BY <1>1 DEF Max

LEMMA OnceMore ==
    \A n \in Nat : Quota * n \in Nat /\ Quota * (n + 1) = Quota * n + Quota
  BY MeterAssumption DEF MeterAssumption

-----------------------------------------------------------------------------
(* The steps.                                                              *)

LEMMA MeterInitHolds == MeterInit => MeterInv
<1> SUFFICES ASSUME MeterInit PROVE MeterInv
  OBVIOUS
<1>1. 0 \in Counts /\ Missing \notin Counts /\ 0 \in 0 .. MostLosses
  BY MeterAssumption DEF MeterAssumption, Counts, Missing
<1>2. Resting \in CallRecords /\ Resting \in FlusherRecords
  BY <1>1 DEF Resting, CallRecords, FlusherRecords
<1>3. MeterTypeOK
  BY <1>1, <1>2 DEF MeterInit, MeterTypeOK, CallRecords, FlusherRecords
<1>4. Quota * 0 = 0
  BY MeterAssumption DEF MeterAssumption
<1> QED  BY <1>3, <1>4 DEF MeterInit, MeterInv, CountsAdmitted, Since, ClaimedFirst

\* What the script does, of a counter Redis has.
LEMMA ScriptHolds ==
    ASSUME MeterInv, NEW r \in Calls, counter # Missing, RunScript(r),
           UNCHANGED <<moved, flushLock, usageRow, flusher, losses, warnings>>
    PROVE  MeterInv'
<1>1. counter \in 0 .. Quota /\ admitted \in Nat /\ losses \in Nat /\ Quota \in Nat
  BY MeterAssumption DEF MeterAssumption, MeterInv, MeterTypeOK, Counts
<1>2. CASE Refused429(counter)
  <2>1. call' \in [Calls -> CallRecords]
    BY <1>1, <1>2 DEF RunScript, ToStep, MeterInv, MeterTypeOK, CallRecords, Counts
  <2>2. MeterTypeOK'
    BY <1>2, <2>1 DEF RunScript, MeterInv, MeterTypeOK, CallRecords
  <2> QED  BY <1>2, <2>2 DEF RunScript, MeterInv, CountsAdmitted, Since, ClaimedFirst
<1>3. CASE ~Refused429(counter)
  <2>1. /\ counter' = counter + 1 /\ counter' \in 0 .. Quota /\ counter' # Missing
        /\ admitted' = admitted + 1
    BY <1>1, <1>3 DEF RunScript, Refused429, Missing
  <2>2. call' \in [Calls -> CallRecords] /\ warnFlag' \in BOOLEAN /\ dirty' \in BOOLEAN
    <3>1. counter' \in Counts /\ 0 \in Counts
      BY <1>1, <2>1 DEF Counts
    <3>2. call \in [Calls -> CallRecords] /\ warnFlag \in BOOLEAN
      BY DEF MeterInv, MeterTypeOK, CallRecords
    <3>3. ToStep(r, "claiming", counter') \/ ToStep(r, "idle", 0)
      BY <1>3 DEF RunScript
    <3>4. call' \in [Calls -> CallRecords]
      BY <3>1, <3>2, <3>3 DEF ToStep, CallRecords
    <3> QED  BY <1>3, <3>2, <3>4 DEF RunScript
  <2>3. MeterTypeOK'
    BY <1>1, <2>1, <2>2 DEF MeterInv, MeterTypeOK, CallRecords, Counts
  <2>4. CountsAdmitted'
    BY <1>1, <2>1, OnceMore DEF MeterInv, CountsAdmitted, Since
  <2> QED  BY <2>3, <2>4 DEF MeterInv, ClaimedFirst
<1> QED  BY <1>2, <1>3

LEMMA CallHolds ==
    ASSUME MeterInv, NEW r \in Calls,
           SpendCall(r) \/ ReadStored(r) \/ Seed(r) \/ SpendSeeded(r) \/ ClaimUnmade(r)
    PROVE  MeterInv'
<1>1. call[r] \in CallRecords /\ usageRow.count \in Counts /\ 0 \in Counts
  BY MeterAssumption DEF MeterAssumption, MeterInv, MeterTypeOK, CallRecords, Counts
<1>2. ASSUME NEW step \in {"idle", "missed", "read", "seeded", "claiming"}, NEW count \in Counts,
             ToStep(r, step, count)
      PROVE  call' \in [Calls -> CallRecords]
  BY <1>2 DEF ToStep, MeterInv, MeterTypeOK, CallRecords
<1>3. CASE (SpendCall(r) \/ SpendSeeded(r)) /\ counter # Missing
  BY <1>3, ScriptHolds DEF SpendCall, SpendSeeded
<1>4. CASE (SpendCall(r) \/ SpendSeeded(r)) /\ counter = Missing
  <2>1. call' \in [Calls -> CallRecords]
    BY <1>1, <1>2, <1>4 DEF SpendCall, SpendSeeded
  <2>2. MeterTypeOK'
    BY <1>4, <2>1 DEF SpendCall, SpendSeeded, MeterInv, MeterTypeOK, CallRecords
  <2> QED  BY <1>4, <2>2
           DEF SpendCall, SpendSeeded, MeterInv, CountsAdmitted, Since, ClaimedFirst
<1>5. CASE ReadStored(r)
  <2>1. call' \in [Calls -> CallRecords]
    BY <1>1, <1>2, <1>5 DEF ReadStored
  <2>2. MeterTypeOK'
    BY <1>5, <2>1 DEF ReadStored, MeterInv, MeterTypeOK, CallRecords
  <2> QED  BY <1>5, <2>2 DEF ReadStored, MeterInv, CountsAdmitted, Since, ClaimedFirst
<1>6. CASE Seed(r)
  <2>1. call' \in [Calls -> CallRecords]
    BY <1>1, <1>2, <1>6 DEF Seed
  <2>2. /\ counter' \in Counts \cup {Missing}
        /\ counter # Missing => counter' = counter
        /\ counter = Missing => counter' \in Counts
    BY <1>1, <1>6 DEF Seed, SeedValue, MeterInv, MeterTypeOK, CallRecords
  <2>3. MeterTypeOK'
    BY <1>6, <2>1, <2>2 DEF Seed, MeterInv, MeterTypeOK, CallRecords
  <2>4. Since' \in Int /\ Since \in Int /\ Since' >= Since /\ Quota * losses \in Int
        /\ admitted \in Int
    BY <2>2, OnceMore, MeterAssumption
    DEF MeterAssumption, Since, Counts, Missing, MeterInv, MeterTypeOK
  <2>5. CountsAdmitted'
    BY <1>6, <2>4 DEF Seed, MeterInv, CountsAdmitted
  <2> QED  BY <1>6, <2>3, <2>5 DEF Seed, MeterInv, ClaimedFirst
<1>7. CASE ClaimUnmade(r)
  <2>1. call' \in [Calls -> CallRecords]
    BY <1>1, <1>2, <1>7 DEF ClaimUnmade
  <2>2. MeterTypeOK'
    BY <1>7, <2>1 DEF ClaimUnmade, MeterInv, MeterTypeOK, CallRecords
  <2> QED  BY <1>7, <2>2 DEF ClaimUnmade, MeterInv, CountsAdmitted, Since, ClaimedFirst
<1> QED  BY <1>3, <1>4, <1>5, <1>6, <1>7

LEMMA ClaimHolds ==
    ASSUME MeterInv, NEW r \in Calls, ClaimWarning(r)
    PROVE  MeterInv'
<1>1. call[r] \in CallRecords /\ usageRow \in [count : Counts, warned : BOOLEAN] /\ 0 \in Counts
  BY MeterAssumption DEF MeterAssumption, MeterInv, MeterTypeOK, CallRecords, Counts
<1>2. call' \in [Calls -> CallRecords]
  BY <1>1 DEF ClaimWarning, ToStep, MeterInv, MeterTypeOK, CallRecords
<1>3. CASE Claims(usageRow)
  <2>1. usageRow.count \in Nat /\ call[r].count \in Nat
    BY <1>1 DEF CallRecords, Counts
  <2>2. Max({usageRow.count, call[r].count}) \in Counts
    BY <1>1, <2>1, LargerOfTwo DEF CallRecords
  <2>3. usageRow' \in [count : Counts, warned : BOOLEAN] /\ usageRow'.warned
    <3>1. usageRow' = [count |-> Max({usageRow.count, call[r].count}), warned |-> TRUE]
      BY <1>3 DEF ClaimWarning
    <3> HIDE DEF Max
    <3> QED  BY <2>2, <3>1
  <2>4. warnings = 0 /\ warnings' \in {0, 1}
    BY <1>3 DEF MeterInv, MeterTypeOK, ClaimedFirst, Claims, ClaimWarning
  <2>5. MeterTypeOK'
    BY <1>2, <2>3, <2>4 DEF ClaimWarning, MeterInv, MeterTypeOK, CallRecords
  <2> QED  BY <2>3, <2>4, <2>5 DEF ClaimWarning, MeterInv, CountsAdmitted, Since, ClaimedFirst
<1>4. CASE ~Claims(usageRow)
  <2>1. MeterTypeOK'
    BY <1>2, <1>4 DEF ClaimWarning, MeterInv, MeterTypeOK, CallRecords
  <2> QED  BY <1>4, <2>1 DEF ClaimWarning, MeterInv, CountsAdmitted, Since, ClaimedFirst
<1> QED  BY <1>3, <1>4

\* A step of a flush, which may raise the stored count and changes nothing else
\* that is counted.
LEMMA FlushHolds ==
    ASSUME MeterInv, NEW f \in Flushers,
           \/ TakeFlushLock(f) \/ MoveAside(f) \/ GetCounts(f) \/ WriteCounts(f)
           \/ EndFlush(f) \/ FlushFails(f) \/ FlusherDies(f)
    PROVE  MeterInv'
<1>1. 0 \in Counts \cup {Missing} /\ Missing \in Counts \cup {Missing}
  BY MeterAssumption DEF MeterAssumption, Counts
<1>2. flusher' \in [Flushers -> FlusherRecords]
  <2>1. ASSUME NEW step \in {"idle", "locked", "moved", "got", "written"},
               NEW count \in Counts \cup {Missing}, FlushStep(f, step, count)
        PROVE  flusher' \in [Flushers -> FlusherRecords]
    BY <2>1 DEF FlushStep, MeterInv, MeterTypeOK, FlusherRecords
  <2>2. (IF moved THEN counter ELSE Missing) \in Counts \cup {Missing}
    BY DEF MeterInv, MeterTypeOK
  <2> QED  BY <1>1, <2>1, <2>2
           DEF TakeFlushLock, MoveAside, GetCounts, WriteCounts, EndFlush, FlushFails, FlusherDies
<1>3. usageRow' \in [count : Counts, warned : BOOLEAN] /\ usageRow'.warned = usageRow.warned
  <2>1. CASE WriteCounts(f) /\ flusher[f].count # Missing
    <3>1. usageRow.count \in Counts /\ flusher[f].count \in Counts
      BY <2>1 DEF MeterInv, MeterTypeOK
    <3>2. Kept(usageRow.count, flusher[f].count) \in Counts
      BY <3>1, LargerOfTwo DEF Kept, Counts
    <3> QED  BY <2>1, <3>2 DEF WriteCounts, MeterInv, MeterTypeOK
  <2>2. CASE ~(WriteCounts(f) /\ flusher[f].count # Missing)
    BY <2>2
    DEF TakeFlushLock, MoveAside, GetCounts, WriteCounts, EndFlush, FlushFails, FlusherDies,
        MeterInv, MeterTypeOK
  <2> QED  BY <2>1, <2>2
<1>4. /\ UNCHANGED <<counter, warnFlag, call, admitted, losses, warnings>>
      /\ dirty' \in BOOLEAN /\ moved' \in BOOLEAN /\ flushLock' \in Flushers \cup {Nobody}
  BY DEF TakeFlushLock, MoveAside, GetCounts, WriteCounts, EndFlush, FlushFails, FlusherDies,
         FlushLeaves, Released, MeterInv, MeterTypeOK
<1>5. MeterTypeOK'
  BY <1>2, <1>3, <1>4 DEF MeterInv, MeterTypeOK, FlusherRecords
<1> QED  BY <1>3, <1>4, <1>5 DEF MeterInv, CountsAdmitted, Since, ClaimedFirst

LEMMA LossHolds == MeterInv /\ (LoseRedis \/ LockExpires) => MeterInv'
<1> SUFFICES ASSUME MeterInv, LoseRedis \/ LockExpires PROVE MeterInv'
  OBVIOUS
<1>1. CASE LoseRedis
  <2>1. losses \in Nat /\ losses' = losses + 1 /\ losses' \in 0 .. MostLosses /\ admitted \in Nat
    <3>1. losses \in 0 .. MostLosses /\ MostLosses \in Nat /\ admitted \in Nat
      BY MeterAssumption DEF MeterAssumption, MeterInv, MeterTypeOK
    <3>2. losses < MostLosses /\ losses' = losses + 1
      BY <1>1 DEF LoseRedis
    <3> QED  BY <3>1, <3>2
  <2>2. MeterTypeOK'
    BY <1>1, <2>1 DEF LoseRedis, MeterInv, MeterTypeOK
  <2>3. Since \in 0 .. Quota /\ Quota \in Nat
    BY MeterAssumption DEF MeterAssumption, Since, MeterInv, MeterTypeOK, Counts
  <2>4. Since' = 0 /\ admitted' = admitted
    BY <1>1 DEF LoseRedis, Since
  <2>5. CountsAdmitted'
    BY <2>1, <2>3, <2>4, OnceMore DEF MeterInv, CountsAdmitted
  <2> QED  BY <1>1, <2>2, <2>5 DEF LoseRedis, MeterInv, ClaimedFirst
<1>2. CASE LockExpires
  <2>1. MeterTypeOK'
    BY <1>2 DEF LockExpires, FlushLeaves, MeterInv, MeterTypeOK
  <2> QED  BY <1>2, <2>1
           DEF LockExpires, FlushLeaves, MeterInv, CountsAdmitted, Since, ClaimedFirst
<1> QED  BY <1>1, <1>2

LEMMA MeterStepHolds == MeterInv /\ [MeterNext]_meterVars => MeterInv'
<1>1. MeterInv /\ UNCHANGED meterVars => MeterInv'
  BY DEF meterVars, MeterInv, MeterTypeOK, CountsAdmitted, Since, ClaimedFirst
<1> QED  BY <1>1, CallHolds, ClaimHolds, FlushHolds, LossHolds DEF MeterNext

-----------------------------------------------------------------------------

\* A month admits no more than the limit, and no more again for each loss.
THEOREM QuotaKept == MeterSpec => []QuotaHolds
<1>1. ASSUME MeterInv PROVE QuotaHolds
  <2>1. Since \in 0 .. Quota /\ losses \in Nat /\ admitted \in Nat /\ Quota \in Nat
    BY <1>1, MeterAssumption DEF MeterAssumption, Since, MeterInv, MeterTypeOK, Counts
  <2>2. Quota * (1 + losses) = Quota * losses + Quota /\ Quota * losses \in Nat
    BY <2>1, OnceMore
  <2> QED  BY <1>1, <2>1, <2>2 DEF MeterInv, CountsAdmitted, QuotaHolds
<1> QED  BY MeterInitHolds, MeterStepHolds, <1>1, PTL DEF MeterSpec

\* No flush and no claim, however late, sets the stored count back.
THEOREM NeverFalls == MeterSpec => StoredNeverFalls
<1>1. ASSUME MeterInv, [MeterNext]_meterVars PROVE usageRow'.count >= usageRow.count
  <2>1. usageRow.count \in Nat /\ usageRow \in [count : Counts, warned : BOOLEAN]
    BY <1>1 DEF MeterInv, MeterTypeOK, Counts
  <2>2. ASSUME NEW r \in Calls, ClaimWarning(r) PROVE usageRow'.count >= usageRow.count
    <3>1. call[r].count \in Nat
      BY <1>1 DEF MeterInv, MeterTypeOK, Counts
    <3> QED  BY <2>1, <2>2, <3>1, LargerOfTwo DEF ClaimWarning
  <2>3. ASSUME NEW f \in Flushers, WriteCounts(f) PROVE usageRow'.count >= usageRow.count
    <3>1. flusher[f].count = Missing \/ flusher[f].count \in Nat
      BY <1>1 DEF MeterInv, MeterTypeOK, Counts
    <3> QED  BY <2>1, <2>3, <3>1, LargerOfTwo DEF WriteCounts, Kept
  <2>4. CASE UNCHANGED usageRow
    BY <2>1, <2>4
  <2>5. \/ UNCHANGED usageRow
        \/ \E r \in Calls : ClaimWarning(r)
        \/ \E f \in Flushers : WriteCounts(f)
    BY <1>1
    DEF MeterNext, meterVars, SpendCall, ReadStored, Seed, SpendSeeded, ClaimUnmade, TakeFlushLock,
        MoveAside, GetCounts, EndFlush, FlushFails, FlusherDies, LockExpires, FlushLeaves, LoseRedis
  <2> QED  BY <2>2, <2>3, <2>4, <2>5
<1>2. MeterInv /\ [MeterNext]_meterVars => [usageRow'.count >= usageRow.count]_meterVars
  BY <1>1
<1> QED  BY MeterInitHolds, MeterStepHolds, <1>2, PTL DEF MeterSpec, StoredNeverFalls

\* The email at 80% goes once a month at the most, however often Redis forgets.
THEOREM WarnsOnce == MeterSpec => []WarnedOnce
<1>1. MeterInv => WarnedOnce
  BY DEF MeterInv, MeterTypeOK, ClaimedFirst, WarnedOnce
<1> QED  BY MeterInitHolds, MeterStepHolds, <1>1, PTL DEF MeterSpec

-----------------------------------------------------------------------------
(* Courier.                                                                *)

\* What has been heard of a message is of one Postmark took, and the row says the
\* furthest of it; until then it says how the send went.
Logged(m) ==
    /\ heard[m] \subseteq happened[m]
    /\ happened[m] # {} => "arrived" \in happened[m]
    /\ heard[m] # {} =>
        /\ emailLog[m] \in heard[m]
        /\ \A e \in heard[m] : STATUS_RANKS[e] <= STATUS_RANKS[emailLog[m]]
    /\ happened[m] # {} /\ heard[m] = {} => emailLog[m] \in {"sending", "sent", "failed"}
    /\ sending[m] = "unsent" => emailLog[m] = "none"
    /\ sending[m] = "handed" => emailLog[m] = "sending"
    /\ sending[m] \in {"unsent", "handed", "suppressed"} => happened[m] = {}
    /\ sending[m] \in Answers => emailLog[m] = "sending" \/ heard[m] # {}

\* Unless a suppression was lifted, what was heard stops the address.
Stopped(m) ==
    ~lifts =>
        /\ "bounced" \in heard[m] => suppressed = "all"
        /\ "complained" \in heard[m] => suppressed \in {"all", ScopeOf(StreamOf(m))}

MailInv == MailTypeOK /\ \A m \in Messages : Logged(m) /\ Stopped(m)

LEMMA MailInitHolds == MailInit => MailInv
<1> SUFFICES ASSUME MailInit PROVE MailInv
  OBVIOUS
<1>1. MailTypeOK
  BY DEF MailInit, MailTypeOK
<1> QED  BY <1>1 DEF MailInit, MailInv, Logged, Stopped, Answers

\* A step in one message's sending.
LEMMA SendHolds ==
    ASSUME MailInv, NEW m \in Messages,
           LogSend(m) \/ Unlogged(m) \/ AnswerLost(m) \/ LogAnswer(m)
    PROVE  MailInv'
<1>1. MailTypeOK'
  <2>1. {"suppressed", "sending"} \cup Answers \subseteq DOMAIN STATUS_RANKS
    BY DEF STATUS_RANKS, Answers
  <2>2. emailLog' \in [Messages -> DOMAIN STATUS_RANKS \cup {"none"}]
    BY <2>1 DEF MailInv, MailTypeOK, LogSend, Unlogged, AnswerLost, LogAnswer, Answered
  <2>3. suppressed' \in {"none", "broadcast", "all"}
    BY DEF MailInv, MailTypeOK, LogSend, Unlogged, AnswerLost, LogAnswer, Widened, ScopeOf
  <2>4. sending' \in [Messages -> {"unsent", "handed", "over"} \cup Answers]
    BY DEF MailInv, MailTypeOK, LogSend, Unlogged, AnswerLost, LogAnswer, ToMailer
  <2> QED  BY <2>2, <2>3, <2>4
           DEF MailInv, MailTypeOK, LogSend, Unlogged, AnswerLost, LogAnswer
<1>2. UNCHANGED <<happened, heard, lifts>>
  BY DEF LogSend, Unlogged, AnswerLost, LogAnswer
<1>3. ASSUME NEW n \in Messages PROVE Stopped(n)'
  BY <1>2 DEF MailInv, Stopped, LogSend, Unlogged, AnswerLost, LogAnswer, Widened, ScopeOf
<1>4. ASSUME NEW n \in Messages PROVE Logged(n)'
  <2>1. CASE n # m
    <3>1. emailLog'[n] = emailLog[n] /\ sending'[n] = sending[n]
      BY <2>1 DEF MailInv, MailTypeOK, LogSend, Unlogged, AnswerLost, LogAnswer, ToMailer
    <3> QED  BY <1>2, <3>1 DEF MailInv, Logged
  <2>2. CASE n = m /\ (LogSend(m) \/ Unlogged(m))
    <3>1. /\ happened[m] = {} /\ heard[m] = {} /\ sending'[m] \in {"over", "handed"}
          /\ sending'[m] = "handed" => emailLog'[m] = "sending"
      BY <2>2 DEF MailInv, MailTypeOK, Logged, LogSend, Unlogged, ToMailer
    <3> QED  BY <1>2, <2>2, <3>1 DEF Logged, Answers
  <2>3. CASE n = m /\ (AnswerLost(m) \/ LogAnswer(m))
    <3>1. /\ sending[m] \in Answers /\ sending'[m] = "over"
          /\ emailLog'[m] = emailLog[m]
             \/ (emailLog[m] = "sending" /\ emailLog'[m] = sending[m])
      BY <2>3 DEF MailInv, MailTypeOK, AnswerLost, LogAnswer, ToMailer, Answered
    <3>2. Logged(m) /\ (emailLog[m] = "sending" => heard[m] = {})
      BY DEF MailInv, MailTypeOK, Logged, EventKinds
    <3> QED  BY <1>2, <2>3, <3>1, <3>2 DEF Logged, Answers
  <2> QED  BY <2>1, <2>2, <2>3
<1> QED  BY <1>1, <1>3, <1>4 DEF MailInv

LEMMA AnswerHolds ==
    ASSUME MailInv, NEW m \in Messages, NEW answer \in Answers, Answer(m, answer)
    PROVE  MailInv'
<1>1. /\ sending[m] = "handed" /\ sending' = [sending EXCEPT ![m] = answer]
      /\ UNCHANGED <<emailLog, suppressed, subscribed, stopped, changes, heard, lifts>>
      /\ happened' \in {happened, [happened EXCEPT ![m] = {"arrived"}]}
      /\ answer = "suppressed" => happened' = happened
  BY DEF Answer, ToMailer
<1>2. MailTypeOK'
  BY <1>1 DEF MailInv, MailTypeOK
<1>3. ASSUME NEW n \in Messages PROVE Stopped(n)'
  BY <1>1 DEF MailInv, Stopped
<1>4. ASSUME NEW n \in Messages PROVE Logged(n)'
  <2>1. CASE n # m
    <3>1. happened'[n] = happened[n] /\ sending'[n] = sending[n]
      BY <1>1, <2>1 DEF MailInv, MailTypeOK
    <3> QED  BY <1>1, <3>1 DEF MailInv, Logged
  <2>2. CASE n = m
    <3>1. /\ emailLog[m] = "sending" /\ happened[m] = {} /\ heard[m] = {}
          /\ sending'[m] = answer /\ happened'[m] \in {{}, {"arrived"}}
          /\ answer = "suppressed" => happened'[m] = {}
      BY <1>1 DEF MailInv, MailTypeOK, Logged
    <3> QED  BY <1>1, <2>2, <3>1 DEF Logged, Answers
  <2> QED  BY <2>1, <2>2
<1> QED  BY <1>2, <1>3, <1>4 DEF MailInv

LEMMA HappenHolds ==
    ASSUME MailInv, NEW m \in Messages, NEW e \in EventKinds, Happen(m, e)
    PROVE  MailInv'
<1>1. /\ "arrived" \in happened[m] /\ happened' = [happened EXCEPT ![m] = @ \cup {e}]
      /\ UNCHANGED <<emailLog, suppressed, sending, subscribed, changes, heard, lifts>>
      /\ stopped' \subseteq stopped \cup Streams
  BY DEF Happen, StreamOf, Streams
<1>2. MailTypeOK'
  BY <1>1 DEF MailInv, MailTypeOK
<1>3. ASSUME NEW n \in Messages PROVE Stopped(n)'
  BY <1>1 DEF MailInv, Stopped
<1>4. ASSUME NEW n \in Messages PROVE Logged(n)'
  BY <1>1 DEF MailInv, MailTypeOK, Logged
<1> QED  BY <1>2, <1>3, <1>4 DEF MailInv

LEMMA HearEventHolds ==
    ASSUME MailInv, NEW m \in Messages, NEW e \in EventKinds, HearEvent(m, e)
    PROVE  MailInv'
<1>1. /\ e \in happened[m] /\ heard' = [heard EXCEPT ![m] = @ \cup {e}]
      /\ emailLog' = IF MovesUp(m, e) THEN [emailLog EXCEPT ![m] = e] ELSE emailLog
      /\ UNCHANGED <<sending, subscribed, stopped, happened, changes, lifts>>
  BY DEF HearEvent
<1>2. suppressed' \in {suppressed, "all", "broadcast"}
      /\ (suppressed = "all" => suppressed' = "all")
      /\ (suppressed = "broadcast" => suppressed' \in {"all", "broadcast"})
      /\ (e = "bounced" => suppressed' = "all")
      /\ (e = "complained" => suppressed' \in {"all", ScopeOf(StreamOf(m))})
  BY DEF HearEvent, EventKinds, Widened, ScopeOf
<1>3. MailTypeOK'
  <2>1. EventKinds \subseteq DOMAIN STATUS_RANKS
    BY DEF EventKinds, STATUS_RANKS
  <2> QED  BY <1>1, <1>2, <2>1 DEF MailInv, MailTypeOK
<1>4. ASSUME NEW n \in Messages PROVE Stopped(n)'
  <2>1. heard'[n] = IF n = m THEN heard[n] \cup {e} ELSE heard[n]
    BY <1>1 DEF MailInv, MailTypeOK
  <2> QED  BY <1>1, <1>2, <2>1 DEF MailInv, Stopped, ScopeOf
<1>5. ASSUME NEW n \in Messages PROVE Logged(n)'
  <2>1. CASE n # m
    <3>1. heard'[n] = heard[n] /\ emailLog'[n] = emailLog[n]
      BY <1>1, <2>1 DEF MailInv, MailTypeOK
    <3> QED  BY <1>1, <3>1 DEF MailInv, Logged
  <2>2. CASE n = m
    <3>1. /\ heard'[m] = heard[m] \cup {e} /\ Logged(m) /\ heard[m] \subseteq EventKinds
          /\ emailLog'[m] = IF MovesUp(m, e) THEN e ELSE emailLog[m]
      BY <1>1 DEF MailInv, MailTypeOK
    <3>2. \A f \in DOMAIN STATUS_RANKS : STATUS_RANKS[f] \in Nat
      BY DEF STATUS_RANKS
    <3>3. \A f \in EventKinds : f \in DOMAIN STATUS_RANKS
      BY DEF EventKinds, STATUS_RANKS
    <3>4. CASE heard[m] = {}
      <4>1. emailLog[m] \in {"sending", "sent", "failed"}
        BY <1>1, <3>1, <3>4 DEF Logged
      <4>2. MovesUp(m, e)
        BY <4>1 DEF MovesUp, STATUS_RANKS, EventKinds
      <4> QED  BY <1>1, <2>2, <3>1, <3>2, <3>3, <3>4, <4>2 DEF Logged
    <3>5. CASE heard[m] # {}
      <4>1. /\ emailLog[m] \in heard[m]
            /\ \A f \in heard[m] : STATUS_RANKS[f] <= STATUS_RANKS[emailLog[m]]
            /\ emailLog[m] \in EventKinds
        BY <3>1, <3>5 DEF Logged
      <4>2. /\ emailLog'[m] \in heard'[m]
            /\ \A f \in heard'[m] : STATUS_RANKS[f] <= STATUS_RANKS[emailLog'[m]]
        BY <3>1, <3>2, <3>3, <4>1 DEF MovesUp
      <4>3. sending[m] \notin {"unsent", "handed"}
        BY <1>1, <3>1 DEF Logged
      <4> QED  BY <1>1, <2>2, <3>1, <4>2, <4>3 DEF Logged
    <3> QED  BY <3>4, <3>5
  <2> QED  BY <2>1, <2>2
<1> QED  BY <1>3, <1>4, <1>5 DEF MailInv

LEMMA OthersMailHolds ==
    ASSUME MailInv,
           \/ Leave \/ LiftByHand \/ \E c \in Dashboard : Change(c)
           \/ \E c \in changes : HearChange(c)
           \/ UNCHANGED mailVars
    PROVE  MailInv'
<1>1. UNCHANGED <<emailLog, sending, happened, heard>>
  BY DEF Leave, LiftByHand, Change, HearChange, mailVars
<1>2. /\ suppressed' \in {"none", "broadcast", "all"} /\ lifts' \in BOOLEAN
      /\ subscribed' \in BOOLEAN /\ stopped' \subseteq Streams /\ changes' \subseteq Dashboard
  BY DashboardAssumption
  DEF DashboardAssumption, MailInv, MailTypeOK, Leave, LiftByHand, Change, HearChange, mailVars,
      Widened, Lifted, ScopeOf
<1>3. MailTypeOK'
  BY <1>1, <1>2 DEF MailInv, MailTypeOK
<1>4. \/ lifts'
      \/ /\ lifts' = lifts
         /\ suppressed = "all" => suppressed' = "all"
         /\ suppressed = "broadcast" => suppressed' \in {"all", "broadcast"}
  BY DashboardAssumption
  DEF DashboardAssumption, MailInv, MailTypeOK, Leave, LiftByHand, Change, HearChange, mailVars,
      Widened, ScopeOf
<1>5. \A m \in Messages : Stopped(m)' /\ Logged(m)'
  BY <1>1, <1>4 DEF MailInv, Stopped, Logged, ScopeOf
<1> QED  BY <1>3, <1>5 DEF MailInv

LEMMA MailInvHolds == MailSpec => []MailInv
<1>1. MailInv /\ [MailNext]_mailVars => MailInv'
  BY SendHolds, AnswerHolds, HappenHolds, HearEventHolds, OthersMailHolds DEF MailNext
<1> QED  BY <1>1, MailInitHolds, PTL DEF MailSpec

\* Every message's row, and the address's, keeps its type.
THEOREM MailTypeCorrect == MailSpec => []MailTypeOK
<1>1. MailInv => MailTypeOK
  BY DEF MailInv
<1> QED  BY <1>1, MailInvHolds, PTL

\* In whatever order a message's webhooks and the answer to its send are handled, its
\* row ends at the furthest of them, and the address is stopped as they say.
THEOREM WebhooksAgree == MailSpec => []WebhooksConverge
<1>1. MailInv => WebhooksConverge
  <2> SUFFICES ASSUME MailInv, NEW m \in Messages
               PROVE  /\ heard[m] # {} /\ sending[m] = "over" => emailLog[m] = Furthest(m)
                      /\ "bounced" \in heard[m] /\ ~lifts => suppressed = "all"
                      /\ "complained" \in heard[m] /\ ~lifts =>
                            suppressed \in {"all", ScopeOf(StreamOf(m))}
    BY DEF WebhooksConverge
  <2>1. ASSUME heard[m] # {} PROVE emailLog[m] = Furthest(m)
    <3>1. /\ emailLog[m] \in heard[m] /\ heard[m] \subseteq EventKinds
          /\ \A e \in heard[m] : STATUS_RANKS[e] <= STATUS_RANKS[emailLog[m]]
      BY <2>1 DEF MailInv, MailTypeOK, Logged
    <3>2. \A e \in EventKinds, f \in EventKinds :
            STATUS_RANKS[e] <= STATUS_RANKS[f] /\ STATUS_RANKS[f] <= STATUS_RANKS[e] => e = f
      BY DEF EventKinds, STATUS_RANKS
    <3>3. /\ Furthest(m) \in heard[m]
          /\ \A f \in heard[m] : STATUS_RANKS[f] <= STATUS_RANKS[Furthest(m)]
      BY <3>1 DEF Furthest
    <3> QED  BY <3>1, <3>2, <3>3
  <2> QED  BY <2>1 DEF MailInv, Stopped
<1> QED  BY <1>1, MailInvHolds, PTL

-----------------------------------------------------------------------------
(* PlanRoom.                                                               *)

AtRow == {"looked", "counted"}
Request == [step : {"idle", "asked", "looked", "counted"}, doing : Doing, plan : Plans,
            todo : SUBSET Rules, more : Nat, on : Nat]
OnSet(p) == {x \in Sent(p) : rule[x] = "on"}
Most(q) == IF RuleLimit[q.plan] > q.on THEN RuleLimit[q.plan] ELSE q.on
OnAfter(q) == OnSet(q.plan) \cup (q.todo \cap Sent(q.plan))

\* Since the lock no more rules are on than were; a look that wants no more leaves
\* those, with its own, within what were; once counted, there is room for all.
Counted(q) ==
    /\ q.doing \in {"save", "turn on"} => Cardinality(q.todo) <= 1
    /\ q.doing = "save filter" => q.todo = {}
    /\ q.doing = "follow" => q.todo \subseteq OfInvestor \/ q.todo \subseteq {Digest}
    /\ q.step \in AtRow => RulesOn(q.plan) <= q.on
    /\ q.step = "looked" /\ q.more = 0 => Cardinality(OnAfter(q)) <= q.on
    /\ q.step = "looked" /\ q.more > 0 => Cardinality(q.todo) <= q.more
    /\ q.step = "counted" => Cardinality(OnAfter(q)) <= Most(q)
    /\ q.step = "counted" /\ q.doing = "save filter" => filters < FilterLimit[q.plan]

RoomInv ==
    /\ plan \in Plans /\ rule \in [Rules -> {"none", "off", "on"}] /\ filters \in Nat
    /\ req \in [Savers -> Request]
    /\ \A r \in Savers : Counted(req[r])
    /\ \A r, s \in Savers : req[r].step \in AtRow /\ req[s].step \in AtRow => r = s

LEMMA Sizes ==
    ASSUME NEW T \in SUBSET Rules, NEW S \in SUBSET T
    PROVE  /\ IsFiniteSet(S) /\ Cardinality(S) \in Nat
           /\ IsFiniteSet(T) /\ Cardinality(T) \in Nat
           /\ Cardinality(S) <= Cardinality(T)
<1>1. IsFiniteSet(Rules)
  BY PlanRoomAssumption DEF PlanRoomAssumption
<1>2. IsFiniteSet(T)
  BY <1>1, FS_Subset
<1>3. IsFiniteSet(S) /\ Cardinality(S) <= Cardinality(T)
  BY <1>2, FS_Subset
<1> QED  BY <1>2, <1>3, FS_CardinalityType

LEMMA KnownRules ==
    /\ Digest \in Rules /\ OfInvestor \subseteq Rules
    /\ \A p : Sent(p) \subseteq Rules
    /\ \A p \in Plans : RuleLimit[p] \in Nat /\ FilterLimit[p] \in Nat
<1>1. \A i \in DOMAIN Presets : Presets[i] \in Rules
  BY PlanRoomAssumption DEF PlanRoomAssumption
<1> QED  BY <1>1, PlanRoomAssumption DEF PlanRoomAssumption, OfInvestor, Sent

\* As many rules of a follow as there is room, since each has one more before it.
LEMMA FitsInRoom ==
    ASSUME NEW q \in Request,
           q.todo \subseteq OfInvestor \/ q.todo \subseteq {Digest}
    PROVE  Fits(q) \subseteq q.todo /\ Cardinality(Fits(q)) <= Room(q)
<1> DEFINE Before(x) == {y \in q.todo : Earlier(y, x)}
           n == Room(q)
<1>1. q.todo \subseteq Rules /\ q.plan \in Plans
  BY DEF Request
<1>2. RulesOn(q.plan) \in Nat /\ n \in Nat
  <2>1. RulesOn(q.plan) \in Nat
    BY KnownRules, Sizes DEF RulesOn
  <2> QED  BY <2>1, <1>1, KnownRules DEF Room
<1>3. Fits(q) = {x \in q.todo : Cardinality(Before(x)) < n}
  BY DEF Fits
<1>4. \A x \in q.todo : IsFiniteSet(Before(x)) /\ Cardinality(Before(x)) \in Nat
  BY <1>1, Sizes
<1> HIDE DEF n
<1>5. IsFiniteSet(Fits(q)) /\ Fits(q) \subseteq q.todo
  BY <1>1, <1>3, Sizes
<1>6. CASE q.todo \subseteq {Digest}
  <2>1. Cardinality({Digest}) = 1 /\ IsFiniteSet({Digest}) /\ Cardinality({}) = 0
    BY FS_Singleton, FS_EmptySet
  <2>2. Cardinality(Fits(q)) <= 1
    BY <1>5, <1>6, <2>1, FS_Subset
  <2>3. n = 0 => Fits(q) = {}
    BY <1>3, <1>4
  <2>4. Cardinality(Fits(q)) \in Nat /\ Cardinality(Fits(q)) <= n
    <3>1. Cardinality(Fits(q)) \in Nat
      BY <1>5, FS_CardinalityType
    <3>2. CASE n = 0
      <4>1. Cardinality(Fits(q)) = 0
        BY <2>1, <2>3, <3>2
      <4> QED  BY <4>1, <3>2
    <3>3. CASE n > 0
      BY <3>1, <3>3, <1>2, <2>2
    <3> QED  BY <1>2, <3>2, <3>3
  <2> QED  BY <1>5, <2>4 DEF n
<1>7. CASE q.todo \subseteq OfInvestor
  <2> DEFINE f == [x \in Fits(q) |-> Cardinality(Before(x))]
  <2>1. \A i, j \in DOMAIN Presets :
          i < j /\ Presets[i] \in q.todo /\ Presets[j] \in q.todo =>
            Cardinality(Before(Presets[i])) < Cardinality(Before(Presets[j]))
    <3> SUFFICES ASSUME NEW i \in DOMAIN Presets, NEW j \in DOMAIN Presets, i < j,
                        Presets[i] \in q.todo, Presets[j] \in q.todo
                 PROVE  Cardinality(Before(Presets[i])) < Cardinality(Before(Presets[j]))
      OBVIOUS
    <3>1. DOMAIN Presets \subseteq Int
      BY PlanRoomAssumption DEF PlanRoomAssumption
    <3>2. \A k, l \in DOMAIN Presets : Presets[k] = Presets[l] => k = l
      BY PlanRoomAssumption DEF PlanRoomAssumption
    <3>3. Presets[i] \notin Before(Presets[i])
      BY <3>1, <3>2 DEF Earlier
    <3>4. Before(Presets[i]) \cup {Presets[i]} \subseteq Before(Presets[j])
      BY <3>1, <3>2 DEF Earlier
    <3>5. Cardinality(Before(Presets[i]) \cup {Presets[i]}) =
            Cardinality(Before(Presets[i])) + 1
      BY <1>4, <3>3, FS_AddElement
    <3>6. Cardinality(Before(Presets[i]) \cup {Presets[i]}) <= Cardinality(Before(Presets[j]))
      BY <1>4, <3>4, FS_Subset
    <3> QED  BY <1>4, <3>5, <3>6
  <2>2. \A x, y \in q.todo : Cardinality(Before(x)) = Cardinality(Before(y)) => x = y
    <3> HIDE DEF Before
    <3> SUFFICES ASSUME NEW x \in q.todo, NEW y \in q.todo,
                        Cardinality(Before(x)) = Cardinality(Before(y))
                 PROVE  x = y
      OBVIOUS
    <3>1. PICK i \in DOMAIN Presets : x = Presets[i]
      BY <1>7 DEF OfInvestor
    <3>2. PICK j \in DOMAIN Presets : y = Presets[j]
      BY <1>7 DEF OfInvestor
    <3>3. i \in Int /\ j \in Int
      BY PlanRoomAssumption DEF PlanRoomAssumption
    <3>4. ~(i < j) /\ ~(j < i)
      BY <1>4, <2>1, <3>1, <3>2
    <3> QED  BY <3>1, <3>2, <3>3, <3>4
  <2> HIDE DEF Before
  <2>3. f \in [Fits(q) -> 0..(n - 1)]
    BY <1>2, <1>3, <1>4
  <2>4. \A x, y \in Fits(q) : f[x] = f[y] => x = y
    BY <1>5, <2>2
  <2>5. f \in Injection(Fits(q), 0..(n - 1))
    BY <2>3, <2>4 DEF Injection, IsInjective
  <2>6. IsFiniteSet(0..(n - 1)) /\ Cardinality(0..(n - 1)) = n
    <3>1. 0 \in Int /\ n - 1 \in Int /\ (n - 1) - 0 + 1 = n
      BY <1>2
    <3>2. (0 > n - 1) => n = 0
      BY <1>2
    <3>3. /\ IsFiniteSet(0..(n - 1))
          /\ Cardinality(0..(n - 1)) = IF 0 > n - 1 THEN 0 ELSE (n - 1) - 0 + 1
      BY <3>1, FS_Interval
    <3> QED  BY <3>1, <3>2, <3>3
  <2> HIDE DEF f
  <2> QED  BY <1>5, <2>5, <2>6, FS_Injection DEF n
<1> QED  BY <1>6, <1>7

LEMMA IdleCounts ==
    ASSUME plan \in Plans
    PROVE  Idle \in Request /\ Counted(Idle) /\ Idle.step \notin AtRow
<1>1. Idle \in Request
  BY DEF Idle, Request, Doing
<1>2. Cardinality({}) = 0
  BY FS_EmptySet
<1>3. Counted(Idle) /\ Idle.step \notin AtRow
  BY <1>2 DEF Idle, Counted, AtRow
<1> QED  BY <1>1, <1>3

LEMMA RoomInitHolds == RoomInit => RoomInv
<1> SUFFICES ASSUME RoomInit PROVE RoomInv
  OBVIOUS
<1>1. Idle \in Request /\ Counted(Idle) /\ Idle.step \notin AtRow
  BY IdleCounts DEF RoomInit
<1>2. \A r \in Savers : req[r] = Idle
  BY DEF RoomInit
<1> QED  BY <1>1, <1>2 DEF RoomInit, RoomInv

\* What turns rules off, or takes filters away, or changes the plan, leaves a request
\* all it counted on.
LEMMA LowerHolds ==
    ASSUME RoomInv, plan' \in Plans, req' = req,
           rule' \in [Rules -> {"none", "off", "on"}],
           \A x \in Rules : rule'[x] = "on" => rule[x] = "on",
           filters' \in Nat, filters' <= filters
    PROVE  RoomInv'
<1>1. ASSUME NEW q \in Request, Counted(q) PROVE Counted(q)'
  <2>1. q.plan \in Plans /\ q.on \in Nat /\ Sent(q.plan) \subseteq Rules
    BY KnownRules DEF Request
  <2>2. OnSet(q.plan)' \subseteq OnSet(q.plan) /\ OnSet(q.plan) \in SUBSET Rules
    BY <2>1 DEF OnSet
  <2>3. /\ Cardinality(OnSet(q.plan)') <= Cardinality(OnSet(q.plan))
        /\ Cardinality(OnSet(q.plan)') \in Nat /\ Cardinality(OnSet(q.plan)) \in Nat
    BY <2>2, Sizes
  <2>4. OnAfter(q)' \subseteq OnAfter(q) /\ OnAfter(q) \in SUBSET Rules
    BY <2>1, <2>2 DEF OnAfter
  <2>5. /\ Cardinality(OnAfter(q)') <= Cardinality(OnAfter(q))
        /\ Cardinality(OnAfter(q)') \in Nat /\ Cardinality(OnAfter(q)) \in Nat
    BY <2>4, Sizes
  <2>6. RuleLimit[q.plan] \in Nat /\ FilterLimit[q.plan] \in Nat
    BY <2>1, KnownRules
  <2>7. RulesOn(q.plan)' = Cardinality(OnSet(q.plan)')
    BY DEF RulesOn, OnSet
  <2>8. RulesOn(q.plan) = Cardinality(OnSet(q.plan))
    BY DEF RulesOn, OnSet
  <2>0. /\ q.step \in AtRow => RulesOn(q.plan) <= q.on
        /\ q.step = "looked" /\ q.more = 0 => Cardinality(OnAfter(q)) <= q.on
        /\ q.step = "counted" => Cardinality(OnAfter(q)) <= Most(q)
        /\ q.step = "counted" /\ q.doing = "save filter" => filters < FilterLimit[q.plan]
    BY <1>1 DEF Counted
  <2>14. \A a, b, c \in Nat : a <= b /\ b <= c => a <= c
    OBVIOUS
  <2>15. q.step \in AtRow => Cardinality(OnSet(q.plan)) <= q.on
    BY <2>0, <2>8, Zenon
  <2>16. q.step \in AtRow => Cardinality(OnSet(q.plan)') <= q.on
    BY <2>15, <2>1, <2>3, <2>14, Zenon
  <2>9. q.step \in AtRow => RulesOn(q.plan)' <= q.on
    BY <2>16, <2>7, Zenon
  <2>10. q.step = "looked" /\ q.more = 0 => Cardinality(OnAfter(q)') <= q.on
    BY <2>0, <2>1, <2>5
  <2>11. Most(q) \in Nat
    BY <2>1, <2>6 DEF Most
  <2>12. q.step = "counted" => Cardinality(OnAfter(q)') <= Most(q)
    BY <2>0, <2>5, <2>11, <2>14, Zenon
  <2>13. q.step = "counted" /\ q.doing = "save filter" => filters' < FilterLimit[q.plan]
    <3>1. \A a, b, c \in Nat : a <= b /\ b < c => a < c
      OBVIOUS
    <3>2. filters \in Nat
      BY DEF RoomInv
    <3> QED  BY <3>1, <3>2, <2>0, <2>6, Zenon
  <2> QED  BY <1>1, <2>9, <2>10, <2>12, <2>13 DEF Counted, Most
<1>2. \A r \in Savers : Counted(req[r])'
  BY <1>1 DEF RoomInv
<1> QED  BY <1>2 DEF RoomInv

\* One request moves and nothing is written.
LEMMA AloneHolds ==
    ASSUME RoomInv, NEW r \in Savers, UNCHANGED <<plan, rule, filters>>,
           NEW q \in Request, req' = [req EXCEPT ![r] = q], Counted(q),
           q.step \in AtRow => \A s \in Savers \ {r} : req[s].step \notin AtRow
    PROVE  RoomInv'
<1>1. \A p \in Request : Counted(p) => Counted(p)'
  BY DEF Counted, RulesOn, OnAfter, OnSet, Most, Sent
<1>2. \A s \in Savers : req'[s] = IF s = r THEN q ELSE req[s]
  BY DEF RoomInv
<1>3. \A s \in Savers : Counted(req'[s])
  BY <1>2 DEF RoomInv
<1>4. req' \in [Savers -> Request]
  BY DEF RoomInv
<1>5. \A s \in Savers : Counted(req[s])'
  BY <1>1, <1>3, <1>4
<1>6. \A s, u \in Savers : req'[s].step \in AtRow /\ req'[u].step \in AtRow => s = u
  BY <1>2 DEF RoomInv
<1> QED  BY <1>4, <1>5, <1>6 DEF RoomInv

LEMMA AskHolds ==
    ASSUME RoomInv, NEW r \in Savers, NEW doing \in Doing, NEW x \in Rules,
           AskFor(r, doing, x)
    PROVE  RoomInv'
<1> DEFINE q == [Idle EXCEPT !.step = "asked", !.doing = doing, !.plan = plan,
                             !.todo = Wanted(doing, x)]
<1>1. Wanted(doing, x) \subseteq Rules
  BY KnownRules DEF Wanted
<1>2. Idle \in Request /\ plan \in Plans
  BY DEF RoomInv, Idle, Request, Doing
<1>3. /\ q.step = "asked" /\ q.doing = doing /\ q.todo = Wanted(doing, x)
      /\ q \in Request
  BY <1>1, <1>2 DEF Request
<1>4. Counted(q)
  <2> HIDE DEF q
  <2>1. doing \in {"save", "turn on"} => Cardinality(Wanted(doing, x)) <= 1
    <3>1. Cardinality({x}) = 1
      BY FS_Singleton
    <3>2. doing \in {"save", "turn on"} => Wanted(doing, x) = {x}
      BY DEF Wanted
    <3>3. doing \in {"save", "turn on"} => Cardinality(Wanted(doing, x)) = 1
      BY <3>1, <3>2, Zenon
    <3>4. 1 <= 1
      OBVIOUS
    <3> QED  BY <3>3, <3>4, Zenon
  <2>2. /\ doing = "save filter" => Wanted(doing, x) = {}
        /\ doing = "follow" =>
              Wanted(doing, x) \subseteq OfInvestor \/ Wanted(doing, x) \subseteq {Digest}
    BY DEF Wanted
  <2> QED  BY <1>3, <2>1, <2>2 DEF Counted, AtRow
<1>5. q.step \notin AtRow
  BY <1>3 DEF AtRow
<1>6. req' = [req EXCEPT ![r] = q] /\ UNCHANGED <<plan, rule, filters>>
  BY DEF AskFor
<1> HIDE DEF q
<1> QED  BY <1>3, <1>4, <1>5, <1>6, AloneHolds

LEMMA LookHolds ==
    ASSUME RoomInv, NEW r \in Savers, Look(r)
    PROVE  RoomInv'
<1> DEFINE q == req[r]
           todo == Pending(q)
           off == {x \in todo : rule[x] # "on"}
           p == [q EXCEPT !.step = "looked", !.todo = todo, !.more = Cardinality(off),
                          !.on = RulesOn(q.plan)]
<1>1. q \in Request /\ Counted(q) /\ q.todo \subseteq Rules /\ q.plan \in Plans
  BY DEF RoomInv, Request
<1>2. todo \subseteq q.todo /\ off \subseteq todo
  BY DEF Pending
<1>3. /\ IsFiniteSet(off) /\ Cardinality(off) \in Nat
      /\ IsFiniteSet(todo) /\ Cardinality(todo) \in Nat
      /\ Cardinality(q.todo) \in Nat /\ Cardinality(todo) <= Cardinality(q.todo)
  BY <1>1, <1>2, Sizes
<1>4. /\ RulesOn(q.plan) \in Nat /\ RulesOn(q.plan) = Cardinality(OnSet(q.plan))
      /\ OnSet(q.plan) \subseteq Rules
  BY KnownRules, Sizes DEF RulesOn, OnSet
<1>5. /\ p \in Request /\ p.step = "looked" /\ p.todo = todo /\ p.more = Cardinality(off)
      /\ p.on = RulesOn(q.plan) /\ p.plan = q.plan /\ p.doing = q.doing
  BY <1>1, <1>2, <1>3, <1>4 DEF Request
<1>6. req' = [req EXCEPT ![r] = p] /\ UNCHANGED <<plan, rule, filters>>
  BY DEF Look
<1>7. \A s \in Savers \ {r} : req[s].step \notin AtRow
  BY DEF Look, LockFree, AtRow
<1>8. ASSUME Cardinality(off) = 0 PROVE Cardinality(OnAfter(p)) <= RulesOn(q.plan)
  <2>1. off = {}
    BY <1>3, <1>8, FS_EmptySet
  <2>2. OnAfter(p) \subseteq OnSet(q.plan)
    BY <2>1, <1>5 DEF OnAfter, OnSet
  <2> QED  BY <2>2, <1>4, Sizes
<1>9. ASSUME Cardinality(off) > 0 PROVE Cardinality(todo) <= Cardinality(off)
  <2>1. CASE q.doing \in {"save", "turn on"}
    <3>1. Cardinality(q.todo) <= 1
      BY <2>1, <1>1 DEF Counted
    <3> HIDE DEF q, todo, off
    <3> QED  BY <3>1, <1>3, <1>9
  <2>2. CASE q.doing \notin {"save", "turn on"}
    <3>1. todo = off
      BY <2>2 DEF Pending
    <3> HIDE DEF todo, off
    <3> QED  BY <3>1, <1>3
  <2> QED  BY <2>1, <2>2
<1>10. Counted(p)
  <2>1. /\ p.doing \in {"save", "turn on"} => Cardinality(p.todo) <= 1
        /\ p.doing = "save filter" => p.todo = {}
        /\ p.doing = "follow" => p.todo \subseteq OfInvestor \/ p.todo \subseteq {Digest}
    <3>1. q.doing \in {"save", "turn on"} => Cardinality(q.todo) <= 1
      BY <1>1 DEF Counted
    <3>2. q.doing \in {"save", "turn on"} => Cardinality(todo) <= 1
      <4>1. \A a, b \in Nat : a <= b /\ b <= 1 => a <= 1
        OBVIOUS
      <4> QED  BY <3>1, <1>3, <4>1, Zenon
    <3>3. /\ q.doing = "save filter" => q.todo = {}
          /\ q.doing = "follow" => q.todo \subseteq OfInvestor \/ q.todo \subseteq {Digest}
      BY <1>1 DEF Counted
    <3> HIDE DEF q, todo, p
    <3> QED  BY <1>2, <1>5, <3>2, <3>3
  <2>2. RulesOn(p.plan) <= p.on
    <3> HIDE DEF q, p
    <3> QED  BY <1>4, <1>5
  <2> HIDE DEF q, todo, off, p
  <2> QED  BY <2>1, <2>2, <1>5, <1>8, <1>9 DEF Counted
<1> HIDE DEF p
<1> QED  BY <1>5, <1>6, <1>7, <1>10, AloneHolds

LEMMA CountHolds ==
    ASSUME RoomInv, NEW r \in Savers, Count(r)
    PROVE  RoomInv'
<1> DEFINE q == req[r]
           todo == IF q.doing = "follow" THEN Fits(q) ELSE q.todo
           p == [q EXCEPT !.step = "counted", !.todo = todo]
<1>1. /\ q \in Request /\ Counted(q) /\ q.todo \subseteq Rules /\ q.plan \in Plans
      /\ q.step = "looked" /\ q.on \in Nat /\ q.more \in Nat
  BY DEF RoomInv, Request, Count
<1>2. \A s \in Savers \ {r} : req[s].step \notin AtRow
  BY <1>1 DEF RoomInv, AtRow
<1>3. q.doing = "follow" =>
        /\ q.todo \subseteq OfInvestor \/ q.todo \subseteq {Digest}
        /\ Fits(q) \subseteq q.todo /\ Cardinality(Fits(q)) <= Room(q)
  <2>1. q.doing = "follow" => q.todo \subseteq OfInvestor \/ q.todo \subseteq {Digest}
    BY <1>1 DEF Counted
  <2> HIDE DEF q
  <2> QED  BY <2>1, <1>1, FitsInRoom
<1>4. /\ p \in Request /\ p.step = "counted" /\ p.todo = todo /\ p.on = q.on
      /\ p.plan = q.plan /\ p.doing = q.doing /\ todo \subseteq q.todo
  BY <1>1, <1>3 DEF Request
<1>5. CASE Refuses(q)
  <2>1. Idle \in Request /\ Counted(Idle) /\ Idle.step \notin AtRow
    BY IdleCounts DEF RoomInv
  <2>2. req' = [req EXCEPT ![r] = Idle] /\ UNCHANGED <<plan, rule, filters>>
    BY <1>5 DEF Count, Ends
  <2> QED  BY <2>1, <2>2, AloneHolds
<1>6. CASE ~Refuses(q)
  <2>1. req' = [req EXCEPT ![r] = p] /\ UNCHANGED <<plan, rule, filters>>
    BY <1>6, <1>1 DEF Count, RoomInv
  <2>2. /\ RulesOn(q.plan) \in Nat /\ RulesOn(q.plan) = Cardinality(OnSet(q.plan))
        /\ OnSet(q.plan) \subseteq Rules /\ IsFiniteSet(OnSet(q.plan))
        /\ RuleLimit[q.plan] \in Nat /\ FilterLimit[q.plan] \in Nat
    BY <1>1, KnownRules, Sizes DEF RulesOn, OnSet
  <2>3. RulesOn(q.plan) <= q.on
    BY <1>1 DEF Counted, AtRow
  <2>4. /\ OnAfter(p) = OnSet(q.plan) \cup (todo \cap Sent(q.plan))
        /\ OnAfter(q) = OnSet(q.plan) \cup (q.todo \cap Sent(q.plan))
        /\ Most(p) = Most(q)
    BY <1>4 DEF OnAfter, Most
  <2>5. Most(q) \in Nat /\ q.on <= Most(q) /\ RuleLimit[q.plan] <= Most(q)
    BY <1>1, <2>2 DEF Most
  <2>6. Cardinality(OnAfter(p)) <= Cardinality(OnSet(q.plan)) + Cardinality(todo)
    <3> DEFINE S == OnSet(q.plan)
               T == todo \cap Sent(q.plan)
    <3>1. /\ IsFiniteSet(T) /\ Cardinality(T) \in Nat /\ Cardinality(todo) \in Nat
          /\ Cardinality(T) <= Cardinality(todo)
      BY <1>1, <1>4, Sizes
    <3>2. Cardinality(S \cap T) \in Nat /\ Cardinality(S) \in Nat
      BY <2>2, FS_Intersection, FS_CardinalityType
    <3>3. Cardinality(S \cup T) = Cardinality(S) + Cardinality(T) - Cardinality(S \cap T)
      BY <2>2, <3>1, FS_Union
    <3>4. Cardinality(S \cup T) <= Cardinality(S) + Cardinality(todo)
      <4> HIDE DEF S, T, todo
      <4> QED  BY <3>1, <3>2, <3>3
    <3> QED  BY <2>4, <3>4
  <2>7. Cardinality(OnAfter(p)) <= Most(p)
    <3>1. OnAfter(p) \subseteq OnAfter(q) /\ OnAfter(q) \subseteq Rules
      BY <1>4, <2>2, <2>4, KnownRules
    <3>2. /\ Cardinality(OnAfter(p)) <= Cardinality(OnAfter(q))
          /\ Cardinality(OnAfter(p)) \in Nat /\ Cardinality(OnAfter(q)) \in Nat
          /\ Cardinality(OnSet(q.plan)) \in Nat /\ Cardinality(todo) \in Nat
      BY <3>1, <1>1, <1>4, <2>2, Sizes
    <3>3. CASE q.more = 0
      <4>1. Cardinality(OnAfter(q)) <= q.on
        BY <1>1, <3>3 DEF Counted
      <4> HIDE DEF q, p, todo
      <4> QED  BY <4>1, <3>2, <2>4, <2>5, <1>1
    <3>4. CASE q.more > 0
      <4>1. CASE Room(q) > 0
        <5>1. Room(q) = RuleLimit[q.plan] - RulesOn(q.plan)
          BY <4>1 DEF Room
        <5>2. Cardinality(todo) <= Room(q)
          <6>1. CASE q.doing = "follow"
            BY <6>1, <1>3
          <6>2. CASE q.doing = "save filter"
            <7>1. todo = {}
              BY <6>2, <1>1 DEF Counted
            <7> QED  BY <7>1, <4>1, <5>1, <2>2, FS_EmptySet
          <6>3. CASE q.doing \notin {"follow", "save filter"}
            <7>1. q.more <= Room(q)
              <8>1. ~(q.more > Room(q))
                BY <6>3, <1>6, <3>4 DEF Refuses
              <8>2. Room(q) \in Int
                BY <5>1, <2>2
              <8> HIDE DEF q
              <8> QED  BY <8>1, <8>2, <1>1
            <7>2. Cardinality(todo) <= q.more
              BY <6>3, <1>1, <3>4 DEF Counted
            <7> HIDE DEF q, todo
            <7> QED  BY <7>1, <7>2, <3>2, <1>1, <5>1, <2>2
          <6> QED  BY <6>1, <6>2, <6>3
        <5> HIDE DEF q, p, todo
        <5> QED  BY <5>1, <5>2, <3>2, <2>2, <2>4, <2>5, <2>6
      <4>2. CASE ~(Room(q) > 0)
        <5>1. Room(q) = 0
          BY <4>2, <2>2 DEF Room
        <5>2. Cardinality(todo) = 0
          <6>1. CASE q.doing = "follow"
            <7> HIDE DEF q, todo
            <7>1. Cardinality(todo) <= 0
              BY <6>1, <1>3, <5>1 DEF todo
            <7> QED  BY <7>1, <3>2
          <6>2. CASE q.doing = "save filter"
            <7>1. todo = {}
              BY <6>2, <1>1 DEF Counted
            <7> QED  BY <7>1, FS_EmptySet
          <6>3. CASE q.doing \notin {"follow", "save filter"}
            BY <6>3, <1>6, <3>4, <5>1 DEF Refuses
          <6> QED  BY <6>1, <6>2, <6>3
        <5> HIDE DEF q, p, todo
        <5> QED  BY <5>2, <3>2, <2>2, <2>3, <2>4, <2>5, <2>6, <1>1
      <4> QED  BY <4>1, <4>2
    <3> QED  BY <3>3, <3>4, <1>1
  <2>8. Counted(p)
    <3>1. p.doing \in {"save", "turn on"} => Cardinality(p.todo) <= 1
      BY <1>1, <1>4 DEF Counted
    <3>2. /\ p.doing = "save filter" => p.todo = {}
          /\ p.doing = "follow" => p.todo \subseteq OfInvestor \/ p.todo \subseteq {Digest}
      BY <1>1, <1>3, <1>4 DEF Counted
    <3>3. p.doing = "save filter" => filters < FilterLimit[p.plan]
      <4>1. q.doing = "save filter" => ~(filters >= FilterLimit[q.plan])
        BY <1>6 DEF Refuses
      <4>2. filters \in Nat
        BY DEF RoomInv
      <4>3. q.doing = "save filter" => filters < FilterLimit[q.plan]
        <5>1. \A a, b \in Nat : ~(a >= b) => a < b
          OBVIOUS
        <5> QED  BY <5>1, <4>1, <4>2, <2>2, Zenon
      <4> QED  BY <4>3, <1>4
    <3>4. RulesOn(p.plan) <= p.on
      BY <1>4, <2>3
    <3> HIDE DEF p
    <3> QED  BY <1>4, <2>7, <3>1, <3>2, <3>3, <3>4 DEF Counted
  <2> HIDE DEF p
  <2> QED  BY <1>2, <1>4, <2>1, <2>8, AloneHolds
<1> QED  BY <1>5, <1>6

LEMMA OneSaved ==
    ASSUME RoomInv, NEW r \in Savers, Write(r)
    PROVE  /\ filters \in Nat /\ filters' \in Nat
           /\ filters' = filters \/ (req[r].doing = "save filter" /\ filters' = filters + 1)
<1>1. filters \in Nat
  BY DEF RoomInv
<1>2. \/ req[r].doing = "save filter" /\ filters' = filters + 1
      \/ req[r].doing # "save filter" /\ filters' = filters
  BY Zenon DEF Write
<1>3. filters + 1 \in Nat
  BY <1>1
<1> QED  BY <1>1, <1>2, <1>3, Zenon

LEMMA WriteHolds ==
    ASSUME RoomInv, NEW r \in Savers, Write(r)
    PROVE  RoomInv'
<1>1. Idle \in Request /\ Counted(Idle) /\ Idle.step \notin AtRow
  BY IdleCounts DEF RoomInv
<1>2. \A s \in Savers : req'[s] = IF s = r THEN Idle ELSE req[s]
  BY DEF RoomInv, Write, Ends
<1>3. \A s \in Savers \ {r} : req[s].step \notin AtRow
  BY DEF Write, RoomInv, AtRow
<1>4. \A q \in Request : Counted(q) /\ q.step \notin AtRow => Counted(q)'
  BY DEF Counted, AtRow
<1>5. req' \in [Savers -> Request]
  BY <1>1 DEF RoomInv, Write, Ends
<1>6. \A s \in Savers : Counted(req'[s]) /\ req'[s].step \notin AtRow
  BY <1>1, <1>2, <1>3 DEF RoomInv
<1>7. \A s \in Savers : Counted(req[s])'
  BY <1>4, <1>5, <1>6
<1>8. plan' \in Plans /\ rule' \in [Rules -> {"none", "off", "on"}] /\ filters' \in Nat
  <2>1. rule' \in [Rules -> {"none", "off", "on"}] /\ plan' = plan
    BY DEF RoomInv, Write
  <2> QED  BY <2>1, OneSaved DEF RoomInv
<1> QED  BY <1>5, <1>6, <1>7, <1>8 DEF RoomInv

LEMMA OtherRoomsHold ==
    ASSUME RoomInv,
           \/ Unfollow \/ DeleteFilter
           \/ \E x \in Rules : TurnOff(x) \/ DeleteRule(x)
           \/ \E p \in Plans : SetPlan(p)
           \/ UNCHANGED roomVars
    PROVE  RoomInv'
<1>1. /\ req' = req /\ plan' \in Plans
      /\ rule' \in [Rules -> {"none", "off", "on"}]
      /\ \A x \in Rules : rule'[x] = "on" => rule[x] = "on"
  BY DEF RoomInv, Unfollow, DeleteFilter, TurnOff, DeleteRule, SetPlan, roomVars
<1>2. filters \in Nat /\ (filters' = filters \/ (filters > 0 /\ filters' = filters - 1))
  BY DEF RoomInv, Unfollow, DeleteFilter, TurnOff, DeleteRule, SetPlan, roomVars
<1>3. filters' \in Nat /\ filters' <= filters
  BY <1>2
<1> QED  BY <1>1, <1>3, LowerHolds

LEMMA RoomStepHolds == RoomInv /\ [RoomNext]_roomVars => RoomInv'
<1> SUFFICES ASSUME RoomInv, [RoomNext]_roomVars PROVE RoomInv'
  OBVIOUS
<1>1. ASSUME NEW r \in Savers, NEW doing \in Doing, NEW x \in Rules, AskFor(r, doing, x)
      PROVE  RoomInv'
  BY <1>1, AskHolds
<1>2. Digest \in Rules
  BY KnownRules
<1> QED  BY <1>1, <1>2, LookHolds, CountHolds, WriteHolds, OtherRoomsHold DEF RoomNext, Doing

LEMMA RoomInvHolds == RoomSpec => []RoomInv
  BY RoomInitHolds, RoomStepHolds, PTL DEF RoomSpec

\* The rules, the filters and every request keep their types.
THEOREM RoomTypeCorrect == RoomSpec => []RoomTypeOK
<1>1. RoomInv => RoomTypeOK
  BY DEF RoomInv, RoomTypeOK, Request
<1> QED  BY <1>1, RoomInvHolds, PTL

\* However the requests of one user, what turns rules off, and a change of plan fall
\* between each other, a request that commits leaves no more on than its plan keeps on.
THEOREM RoomKept == RoomSpec => RoomHolds
<1>1. ASSUME RoomInv, [RoomNext]_roomVars, NEW r \in Savers, NEW p \in Plans,
             req[r].plan = p, req[r].step = "counted", req'[r].step = "idle"
      PROVE  /\ Within(RulesOn(p)', RuleLimit[p], req[r].on)
             /\ filters' > filters => filters' <= FilterLimit[p]
  <2> DEFINE q == req[r]
  <2>1. Write(r)
    <3>1. \A s \in Savers :
            /\ \A doing \in Doing, x \in Rules : ~(s = r /\ AskFor(s, doing, x))
            /\ ~(s = r /\ Look(s)) /\ ~(s = r /\ Count(s))
      BY <1>1 DEF AskFor, Look, Count
    <3>2. ASSUME NEW s \in Savers, s # r,
                 \/ \E doing \in Doing, x \in Rules : AskFor(s, doing, x)
                 \/ Look(s) \/ Count(s) \/ Write(s)
          PROVE  FALSE
      <4>1. req'[r] = req[r]
        BY <3>2, <1>1 DEF RoomInv, AskFor, Look, Count, Write, Ends
      <4> QED  BY <4>1, <1>1
    <3>3. req' # req
      BY <1>1
    <3>4. Digest \in Rules
      BY KnownRules
    <3>5. PICK s \in Savers :
            \/ \E doing \in Doing, x \in Rules : AskFor(s, doing, x)
            \/ Look(s) \/ Count(s) \/ Write(s)
      BY <1>1, <3>3, <3>4
      DEF RoomNext, Doing, Unfollow, DeleteFilter, TurnOff, DeleteRule, SetPlan, roomVars
    <3> QED  BY <3>1, <3>2, <3>5
  <2>2. /\ q \in Request /\ Counted(q) /\ q.plan = p /\ q.todo \subseteq Rules
        /\ q.on \in Nat /\ q.step = "counted"
    BY <1>1 DEF RoomInv, Request
  <2>3. {x \in Sent(p) : rule'[x] = "on"} = OnAfter(q)
    BY <2>1, <2>2, KnownRules DEF Write, OnAfter, OnSet, RoomInv
  <2>4. RulesOn(p)' = Cardinality(OnAfter(q))
    BY <2>3 DEF RulesOn, Sent
  <2>5. Cardinality(OnAfter(q)) <= Most(q)
    BY <2>2 DEF Counted
  <2>6. RuleLimit[p] \in Nat /\ FilterLimit[p] \in Nat
    BY KnownRules
  <2>7. Most(q) = IF RuleLimit[p] > q.on THEN RuleLimit[p] ELSE q.on
    BY <2>2 DEF Most
  <2>8. Within(RulesOn(p)', RuleLimit[p], q.on)
    BY <2>4, <2>5, <2>7 DEF Within
  <2>9. filters' > filters => filters' <= FilterLimit[p]
    <3>1. /\ filters \in Nat
          /\ filters' = filters \/ (q.doing = "save filter" /\ filters' = filters + 1)
      BY <1>1, <2>1, OneSaved
    <3>2. q.doing = "save filter" => filters < FilterLimit[p]
      BY <2>2 DEF Counted
    <3>3. \A a, b \in Nat : a < b => a + 1 <= b
      OBVIOUS
    <3>4. \A a \in Nat : ~(a > a)
      OBVIOUS
    <3> QED  BY <3>1, <3>2, <3>3, <3>4, <2>6, Zenon
  <2> QED  BY <2>8, <2>9
<1>2. RoomInv /\ [RoomNext]_roomVars =>
        [\A r \in Savers, p \in Plans :
            req[r].plan = p /\ req[r].step = "counted" /\ req'[r].step = "idle" =>
                /\ Within(RulesOn(p)', RuleLimit[p], req[r].on)
                /\ filters' > filters => filters' <= FilterLimit[p]]_roomVars
  BY <1>1
<1> QED  BY <1>2, RoomInvHolds, PTL DEF RoomSpec, RoomHolds
=============================================================================
