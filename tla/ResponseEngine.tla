---------------------------- MODULE ResponseEngine ----------------------------
(***************************************************************************)
(* Commands that wait for people (crates/sentinel-core/src/response.rs).   *)
(* Every method takes the lock of the pending list once, so each is one    *)
(* step. Nothing in the repository calls the engine: its callers here make *)
(* any call its interface allows. released and expired are history: what   *)
(* confirm() and expire_pending() returned.                                *)
(***************************************************************************)
EXTENDS Integers, FiniteSets

CONSTANTS
  Commands, Users,
  Tier,         \* command -> one of Tiers
  Lifetime,     \* tier -> seconds until it expires: 60, 300, 600, 1800
  MaxTime,      \* bound: the clock
  MaxReleases,  \* bound: releases of one automatic command
  MaxExecuted   \* bound: how often one command is executed

Tiers == {"T1Auto", "T2Confirm", "T3Quorum", "T4BreakGlass"}

ResponseAssumption ==
  /\ Tier \in [Commands -> Tiers] /\ Lifetime \in [Tiers -> Nat]
  /\ MaxTime \in Nat /\ MaxReleases \in Nat \ {0} /\ MaxExecuted \in Nat
  /\ IsFiniteSet(Users)

VARIABLES
  now,        \* Utc::now()
  created,    \* command -> created_at, or -1 before it exists
  pending,    \* the pending list; ids are unique
  confirmed,  \* command -> confirmations, the names in it
  released,   \* command -> how often confirm() has returned it
  expired,    \* commands expire_pending() has returned
  executed    \* command -> how often it is in the executed list

vars == <<now, created, pending, confirmed, released, expired, executed>>

Init ==
  /\ now = 0 /\ pending = {} /\ expired = {}
  /\ created = [c \in Commands |-> -1]
  /\ confirmed = [c \in Commands |-> {}]
  /\ released = [c \in Commands |-> 0] /\ executed = [c \in Commands |-> 0]

(* requires_human and confirmation_count                                   *)
Human(c) == Tier[c] \in {"T2Confirm", "T3Quorum", "T4BreakGlass"}
Needed(c) == IF Tier[c] = "T1Auto" THEN 0 ELSE IF Tier[c] = "T3Quorum" THEN 2 ELSE 1

(* EdrCommand::new and enqueue                                             *)
Enqueue(c) ==
  /\ created[c] = -1
  /\ created' = [created EXCEPT ![c] = now] /\ pending' = pending \cup {c}
  /\ UNCHANGED <<now, confirmed, released, expired, executed>>

(* Wrong on purpose: the released command stays in the list.               *)
Confirm_Stays(c, u) ==
  /\ c \in pending
  /\ confirmed' = [confirmed EXCEPT ![c] = @ \cup {u}]
  /\ IF Cardinality(confirmed'[c]) >= Needed(c)
     THEN released[c] < MaxReleases /\ released' = [released EXCEPT ![c] = @ + 1]
     ELSE UNCHANGED released
  /\ UNCHANGED <<now, created, pending, expired, executed>>

(* confirm: a name counts once. A command that needs nobody is returned    *)
(* and stays pending; one that has enough names is returned and leaves.    *)
(* The expiry is not looked at.                                            *)
Confirm(c, u) ==
  /\ c \in pending
  /\ confirmed' = [confirmed EXCEPT ![c] = @ \cup {u}]
  /\ IF Cardinality(confirmed'[c]) >= Needed(c)
     THEN /\ released[c] < MaxReleases /\ released' = [released EXCEPT ![c] = @ + 1]
          /\ pending' = IF Human(c) THEN pending \ {c} ELSE pending
     ELSE UNCHANGED <<released, pending>>
  /\ UNCHANGED <<now, created, expired, executed>>

(* is_expired, and expire_pending                                          *)
Expired(c) == now > created[c] + Lifetime[Tier[c]]

ExpirePending ==
  /\ expired' = expired \cup {c \in pending : Expired(c)}
  /\ pending' = {c \in pending : ~Expired(c)}
  /\ UNCHANGED <<now, created, confirmed, released, executed>>

(* execute: any command a caller has, released or not, goes to the         *)
(* executed list, which nothing reads.                                     *)
Execute(c) ==
  /\ executed[c] < MaxExecuted
  /\ executed' = [executed EXCEPT ![c] = @ + 1]
  /\ UNCHANGED <<now, created, pending, confirmed, released, expired>>

Tick == now < MaxTime /\ now' = now + 1
        /\ UNCHANGED <<created, pending, confirmed, released, expired, executed>>

Next ==
  \/ \E c \in Commands : Enqueue(c) \/ (\E u \in Users : Confirm(c, u)) \/ Execute(c)
  \/ ExpirePending \/ Tick

Spec == Init /\ [][Next]_vars

-----------------------------------------------------------------------------
(* The variables have their types.                                         *)
TypeOK ==
  /\ now \in 0..MaxTime /\ created \in [Commands -> -1..MaxTime]
  /\ pending \subseteq Commands /\ expired \subseteq Commands
  /\ confirmed \in [Commands -> SUBSET Users]
  /\ released \in [Commands -> 0..MaxReleases] /\ executed \in [Commands -> 0..MaxExecuted]

(* However confirmations, expiries and executions interleave: a command    *)
(* for people is released at most once, by exactly as many different       *)
(* people as its tier asks for, and is never also pending or expired; as   *)
(* long as it is not released it has fewer; none that exists is lost.      *)
ReleasedAsAsked ==
  \A c \in Commands : Human(c) =>
    /\ released[c] <= 1
    /\ released[c] = 1 => /\ Cardinality(confirmed[c]) = Needed(c)
                          /\ c \notin pending /\ c \notin expired
    /\ released[c] = 0 => Cardinality(confirmed[c]) < Needed(c)
    /\ c \in expired => c \notin pending /\ Expired(c)
    /\ created[c] # -1 => c \in pending \cup expired \/ released[c] = 1
=============================================================================
