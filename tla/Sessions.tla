------------------------------ MODULE Sessions ------------------------------
(***************************************************************************)
(* One user's sessions in Redis: signing in and out, and a password        *)
(* changed, reset, or the account deleted, meanwhile.  A request that      *)
(* reads a session and then writes the user's grant into it, and a         *)
(* forgetting of the grants, are writes over what has become of it; the    *)
(* grant they write is KeptGrant's concern.                                *)
(*                                                                         *)
(* Each call to Redis, a MULTI included, and each transaction's commit is  *)
(* a step: others run in between.                                          *)
(***************************************************************************)
EXTENDS Integers

CONSTANTS
    Cookies,
    LastPassword    \* bounds the passwords set

ASSUME SessionsAssumption == LastPassword \in Nat \ {0}

VARIABLES
    password,   \* app_user.password_hash: which password it is of
    gone,       \* app_user.deleted_at
    session,    \* ww:session:*
    index,      \* ww:user-sessions:*
    signin,     \* logins in progress: the password each has verified, 0 for none
    visits,     \* requests between find and keep_grant
    forgetting, \* forget_grants in progress: the records it has read
    ending,     \* a password change, reset or deletion in progress
    proof,      \* history: the password each session was signed in with
    raced       \* history: begun after a change listed those to end, or kept by one

sessionVars == <<password, gone, session, index, signin, visits, forgetting, ending, proof, raced>>

NoForgetting == [step |-> "none", ids |-> {}]
NoEnding == [kind |-> "none", step |-> "none", keep |-> {}, ids |-> {}]

SessionsTypeOK ==
    /\ password \in 1 .. LastPassword /\ gone \in BOOLEAN
    /\ session \in [Cookies -> {"unborn", "live", "over"}] /\ index \subseteq Cookies
    /\ signin \in [Cookies -> 0 .. LastPassword] /\ proof \in [Cookies -> 0 .. LastPassword]
    /\ visits \subseteq Cookies
    /\ forgetting \in [step : {"none", "listed", "got"}, ids : SUBSET Cookies]
    /\ ending \in [kind : {"none", "password", "delete"}, step : {"none", "set", "listed", "ended"},
                   keep : SUBSET Cookies, ids : SUBSET Cookies]
    /\ raced \subseteq Cookies

SessionsInit ==
    /\ password = 1 /\ gone = FALSE
    /\ session = [c \in Cookies |-> "unborn"] /\ index = {}
    /\ signin = [c \in Cookies |-> 0] /\ proof = [c \in Cookies |-> 0]
    /\ visits = {} /\ forgetting = NoForgetting /\ ending = NoEnding
    /\ raced = {}

Alive(c) == session[c] = "live"

\* A SET of the whole record with XX and KEEPTTL: of a session not ended.
WriteBack_Any(ids) == session' = [c \in Cookies |-> IF c \in ids THEN "live" ELSE session[c]]
WriteBack(ids) ==
    session' = [c \in Cookies |-> IF c \in ids /\ Alive(c) THEN "live" ELSE session[c]]

-----------------------------------------------------------------------------
(* Signing in and out.                                                     *)

\* login reads the user and verifies the password given.
VerifyPassword(c) ==
    /\ session[c] = "unborn" /\ signin[c] = 0 /\ ~gone
    /\ signin' = [signin EXCEPT ![c] = password]
    /\ UNCHANGED <<password, gone, session, index, visits, forgetting, ending, proof, raced>>

\* Its commit, which waits for a transaction that holds the user's row, writes
\* the password it was given again if its hash is of older parameters than today's,
\* as the first one's may be; and then the session is started, whatever has begun
\* since.
StartSession(c) ==
    /\ signin[c] # 0
    /\ \/ UNCHANGED password
       \/ ending.kind = "none" /\ signin[c] = 1 /\ password' = 1
    /\ session' = [session EXCEPT ![c] = "live"] /\ index' = index \cup {c}
    /\ signin' = [signin EXCEPT ![c] = 0] /\ proof' = [proof EXCEPT ![c] = signin[c]]
    /\ raced' = IF gone \/ signin[c] < password \/ ending.step \in {"listed", "ended"}
                THEN raced \cup {c} ELSE raced
    /\ UNCHANGED <<gone, visits, forgetting, ending>>

\* end: the session and its place in the index.
Logout(c) ==
    /\ Alive(c)
    /\ session' = [session EXCEPT ![c] = "over"] /\ index' = index \ {c}
    /\ UNCHANGED <<password, gone, signin, visits, forgetting, ending, proof, raced>>

\* Redis expires the key; the index keeps its member.
Expire(c) ==
    /\ Alive(c)
    /\ session' = [session EXCEPT ![c] = "over"]
    /\ UNCHANGED <<password, gone, index, signin, visits, forgetting, ending, proof, raced>>

-----------------------------------------------------------------------------
(* Requests, and grants forgotten.                                         *)

\* find_session: the record, and its user.
FindSession(c) ==
    /\ Alive(c) /\ ~gone /\ c \notin visits
    /\ visits' = visits \cup {c}
    /\ UNCHANGED <<password, gone, session, index, signin, forgetting, ending, proof, raced>>

\* The user was deleted since it signed in: the session goes with it.
FindGone(c) == gone /\ Logout(c)

KeepGrant(c) ==
    /\ c \in visits /\ WriteBack({c})
    /\ visits' = visits \ {c}
    /\ UNCHANGED <<password, gone, index, signin, forgetting, ending, proof, raced>>

\* forget_grants: the index, the records, and one MULTI.
ForgetLists ==
    /\ forgetting.step = "none"
    /\ forgetting' = [step |-> "listed", ids |-> index]
    /\ UNCHANGED <<password, gone, session, index, signin, visits, ending, proof, raced>>
ForgetReads ==
    /\ forgetting.step = "listed"
    /\ forgetting' = [step |-> "got", ids |-> {c \in forgetting.ids : Alive(c)}]
    /\ UNCHANGED <<password, gone, session, index, signin, visits, ending, proof, raced>>
ForgetWrites ==
    /\ forgetting.step = "got" /\ WriteBack(forgetting.ids)
    /\ forgetting' = NoForgetting
    /\ UNCHANGED <<password, gone, index, signin, visits, ending, proof, raced>>

-----------------------------------------------------------------------------
(* A new password, or the account deleted: the user's row is written, the  *)
(* sessions ended, and then the transaction commits.                       *)

\* change_password keeps the session it came from; a reset and a deletion none.
BeginEnding(kind, keep) ==
    /\ ending.kind = "none" /\ ~gone
    /\ kind = "password" => password < LastPassword
    /\ kind = "delete" => keep = {}
    /\ \A c \in keep : Alive(c)
    /\ ending' = [NoEnding EXCEPT !.kind = kind, !.step = "set", !.keep = keep]
    /\ UNCHANGED <<password, gone, session, index, signin, visits, forgetting, proof, raced>>

\* end_all: the index, and one MULTI.
EndingLists ==
    /\ ending.step = "set"
    /\ ending' = [ending EXCEPT !.step = "listed", !.ids = index \ ending.keep]
    /\ UNCHANGED <<password, gone, session, index, signin, visits, forgetting, proof, raced>>
EndingDeletes ==
    /\ ending.step = "listed"
    /\ session' = [c \in Cookies |-> IF c \in ending.ids THEN "over" ELSE session[c]]
    /\ index' = index \ ending.ids
    /\ ending' = [ending EXCEPT !.step = "ended"]
    /\ UNCHANGED <<password, gone, signin, visits, forgetting, proof, raced>>

Commit ==
    /\ gone' = (ending.kind = "delete")
    /\ password' = IF ending.kind = "password" THEN password + 1 ELSE password
    /\ ending' = NoEnding /\ raced' = raced \cup ending.keep
    /\ UNCHANGED <<session, index, signin, visits, forgetting, proof>>

EndingCommits == ending.step = "ended" /\ Commit

\* Redis out of reach: a 503, and the row as it was.
EndingFails_Commits == ending.step \in {"set", "listed"} /\ Commit
EndingFails ==
    /\ ending.step \in {"set", "listed"}
    /\ ending' = NoEnding
    /\ UNCHANGED <<password, gone, session, index, signin, visits, forgetting, proof, raced>>

SessionsNext ==
    \/ \E c \in Cookies :
        \/ VerifyPassword(c) \/ StartSession(c) \/ Logout(c) \/ Expire(c)
        \/ FindSession(c) \/ FindGone(c) \/ KeepGrant(c)
    \/ ForgetLists \/ ForgetReads \/ ForgetWrites
    \/ \E kind \in {"password", "delete"}, keep \in {{}} \cup {{c} : c \in Cookies} :
            BeginEnding(kind, keep)
    \/ EndingLists \/ EndingDeletes \/ EndingCommits \/ EndingFails

SessionsSpec == SessionsInit /\ [][SessionsNext]_sessionVars

-----------------------------------------------------------------------------
(* Properties.                                                             *)

\* A session ended, by its user or by a password change, is never back: not
\* when a request or a forgetting that read it before writes it after.
EndedStaysEnded ==
    [][\A c \in Cookies : session[c] = "over" => session'[c] = "over"]_sessionVars

\* Once a password is changed or the account deleted, no session signed in with
\* an earlier password is live, but the one it was changed from and those whose
\* sign-in overlapped the change.
OldSessionsEnd ==
    ending.kind = "none" =>
        \A c \in Cookies : Alive(c) /\ (gone \/ proof[c] < password) => c \in raced
=============================================================================
