----------------------------- MODULE MCAsyncSms -----------------------------
(* Small instances of what logging in by SMS goes through.  They share no    *)
(* state and are explored side by side in one run; part says which moves:    *)
(*   "faults"   AsyncSms with the constants of the cfg;                      *)
(*   "calm"     AsyncSms where nothing goes wrong;                           *)
(*   "users"    Users with failing statements;                               *)
(*   "limiter"  Limiter.                                                     *)
EXTENDS AsyncSms

CONSTANTS Requests, People, Leading, MaxId, MaxFaults, None, Calls, Window, Rate, MaxTime

VARIABLES part, users, info, req, faults, sessions,
          clock, taken, passed, limited, log, expiry, newest, inOrder

\* The email of each person begins with the id of the other.
CrossedLeading == [p \in People |-> IF p = 1 THEN 2 ELSE 1]

Calm == INSTANCE AsyncSms WITH MaxAttempts <- RetryMax + 2, Faults <- {}
U    == INSTANCE Users
L    == INSTANCE Limiter WITH Requests <- Calls, sent <- taken

uvars  == <<users, info, req, faults, sessions>>
lvars  == <<clock, taken, passed, limited, log, expiry, newest, inOrder>>
mcvars == <<vars, uvars, lvars, part>>

MCInit == /\ Init /\ U!Init /\ L!Init
          /\ part \in {"faults", "calm", "users", "limiter"}

InFaults(A)  == part = "faults"  /\ A /\ UNCHANGED <<uvars, lvars, part>>
InCalm(A)    == part = "calm"    /\ A /\ UNCHANGED <<uvars, lvars, part>>
InUsers(A)   == part = "users"   /\ A /\ UNCHANGED <<vars, lvars, part>>
InLimiter(A) == part = "limiter" /\ A /\ UNCHANGED <<vars, uvars, part>>

MCNext == InFaults(Next) \/ InCalm(Calm!Next) \/ InUsers(U!Next) \/ InLimiter(L!Next)

MCSpec == /\ MCInit /\ [][MCNext]_mcvars
          /\ \A s \in Senders : WF_mcvars(InCalm(Calm!AsyncSend(s)))
          /\ \A m \in Messages : WF_mcvars(InCalm(Calm!Ripen(m)))
          /\ \A r \in Requests : WF_mcvars(InUsers(U!Goes(r)))

\* The constants of Users and Limiter are as their theorems assume.
ASSUME UsersAssumption   == U!Parameters
ASSUME LimiterAssumption == L!Parameters

\* ExactlyOnce of AsyncSms: without faults no message is delivered twice.
CalmExactlyOnce == part = "calm" => ExactlyOnce

\* EventuallyDecided of AsyncSms: without faults every message is delivered or
\* given up.
CalmEventuallyDecided == part = "calm" => EventuallyDecided

\* AccountInv of Users: a token is for the account of who has logged in, and no two
\* accounts share an email, a phone or a WeChat id.
AccountInv == U!AccountInv

\* EntryIsRow of Users: the entry of redis for an id is the row with that id.
EntryIsRow == U!EntryIsRow

\* LoginByPhoneSucceeds of Users: who goes on trying to log in by phone gets in.
LoginByPhoneSucceeds == U!LoginByPhoneSucceeds

\* WindowInv of Limiter: in order, no window lets requests through in more milliseconds
\* than the rate says, and none turns one away before it has done so in as many.
WindowInv == L!WindowInv
=============================================================================
