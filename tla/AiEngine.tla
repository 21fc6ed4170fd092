------------------------------- MODULE AiEngine -------------------------------
(***************************************************************************)
(* The AI engine's cache and fallback (crates/sentinel-ai/src/lib.rs and   *)
(* providers.rs). Concurrent callers ask for a text; answers are kept      *)
(* under the first 200 bytes of the prompt, so different prompts may share *)
(* a key. The cache's lock is not held while the provider generates.       *)
(***************************************************************************)
EXTENDS Integers, FiniteSets

CONSTANTS
  Callers, Prompts,
  Key,        \* prompt -> the first 200 bytes of it
  Bound,      \* prompt -> max_cache of the call: 128 or 64
  Split,      \* prompts whose 200th byte is inside a character
  NeedsAi,    \* prompts of explain_alert and investigate, which check enabled
  MaxAsks,    \* bound: calls
  Fallback,   \* the text without an answer
  None

AiAssumption ==
  /\ Prompts # {} /\ NeedsAi \subseteq Prompts /\ Split \subseteq Prompts /\ MaxAsks \in Nat
  /\ \A p \in Prompts : Bound[p] \in Nat \ {0}
  /\ Fallback \notin Prompts /\ None \notin Prompts

Keys == {Key[p] : p \in Prompts}

VARIABLES
  enabled,   \* config.enabled
  cache,     \* key -> the prompt whose answer is kept, or None
  prompt,    \* caller -> the prompt it waits for, or None
  got,       \* caller -> the prompt whose answer it got last, or Fallback
  last,      \* caller -> its last prompt
  requests   \* requests_total

vars == <<enabled, cache, prompt, got, last, requests>>

Init ==
  /\ enabled \in BOOLEAN
  /\ cache = [k \in Keys |-> None]
  /\ prompt = [c \in Callers |-> None]
  /\ got = [c \in Callers |-> None] /\ last = [c \in Callers |-> None]
  /\ requests = 0

Entries == {k \in Keys : cache[k] # None}

(* explain_alert, investigate, summarise_chain: the checks before the      *)
(* provider is asked. Cutting the key inside a character panics, and with  *)
(* it the call.                                                            *)
Ask(c, p) ==
  /\ prompt[c] = None
  /\ last' = [last EXCEPT ![c] = p]
  /\ IF p \in NeedsAi /\ ~enabled
     THEN got' = [got EXCEPT ![c] = Fallback] /\ UNCHANGED <<prompt, requests>>
     ELSE IF p \in Split
     THEN got' = [got EXCEPT ![c] = None] /\ UNCHANGED <<prompt, requests>>
     ELSE IF cache[Key[p]] # None
     THEN got' = [got EXCEPT ![c] = cache[Key[p]]] /\ UNCHANGED <<prompt, requests>>
     ELSE /\ requests < MaxAsks /\ requests' = requests + 1
          /\ prompt' = [prompt EXCEPT ![c] = p]
          /\ got' = [got EXCEPT ![c] = None]
  /\ UNCHANGED <<enabled, cache>>

(* The provider errs, refuses or takes too long; or its text is cut inside *)
(* a character at 1997 bytes, which panics.                                *)
Failed(c) ==
  /\ prompt[c] # None
  /\ got' \in {got, [got EXCEPT ![c] = Fallback]}
  /\ prompt' = [prompt EXCEPT ![c] = None]
  /\ UNCHANGED <<enabled, cache, last, requests>>

(* A text comes back: a full cache is emptied, and the text kept. Another  *)
(* caller may have kept one under the same key meanwhile.                  *)
Generated(c) ==
  /\ prompt[c] # None
  /\ LET p == prompt[c]
         kept == IF Cardinality(Entries) >= Bound[p] THEN [k \in Keys |-> None] ELSE cache
     IN cache' = [kept EXCEPT ![Key[p]] = p] /\ got' = [got EXCEPT ![c] = p]
  /\ prompt' = [prompt EXCEPT ![c] = None]
  /\ UNCHANGED <<enabled, last, requests>>

Next == \E c \in Callers : (\E p \in Prompts : Ask(c, p)) \/ Failed(c) \/ Generated(c)

Spec == Init /\ [][Next]_vars

-----------------------------------------------------------------------------
(* The variables have their types: what is kept and given out is a text    *)
(* for a prompt with the same first 200 bytes, and no failure is kept,     *)
(* whoever fills or empties the cache meanwhile; and the cache stays       *)
(* within the largest bound any call has.                                  *)
TypeOK ==
  /\ \A k \in Keys : cache[k] # None => cache[k] \in Prompts /\ Key[cache[k]] = k
  /\ \A c \in Callers : got[c] \in {None, Fallback} \/ Key[got[c]] = Key[last[c]]
  /\ prompt \in [Callers -> Prompts \cup {None}] /\ requests \in 0..MaxAsks
  /\ \E p \in Prompts : Cardinality(Entries) <= Bound[p]
=============================================================================
