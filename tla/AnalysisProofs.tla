----------------------------- MODULE AnalysisProofs -----------------------------
(***************************************************************************)
(* What holds of the components of Analysis for every value of the         *)
(* constants: commands are released as their tiers ask, the rules in force *)
(* are those of the files, batches of events are stored whole, every       *)
(* service's report counts for itself, the AI engine's cache keeps to its  *)
(* keys, and the desktop application shows nothing twice.                  *)
(***************************************************************************)
EXTENDS Analysis, FiniteSetTheorems, SequenceTheorems, WellFoundedInduction, NaturalsInduction, TLAPS

-----------------------------------------------------------------------------
(* The response engine                                                     *)

(* ReleasedAsAsked says nothing of a command that does not exist yet, and  *)
(* enqueue() could bring one back that was released: before it is created  *)
(* a command is nowhere.                                                   *)
Untouched ==
  \A c \in Commands : created[c] = -1 => c \notin pending \cup expired /\ released[c] = 0

IInv == TypeOK /\ Untouched /\ ReleasedAsAsked

(* One confirmation adds at most one name, and names are finitely many.    *)
LEMMA OneMoreName ==
  ASSUME ResponseAssumption, NEW S \in SUBSET Users, NEW u
  PROVE  /\ Cardinality(S) \in Nat /\ Cardinality(S \cup {u}) \in Nat
         /\ Cardinality(S) <= Cardinality(S \cup {u})
         /\ Cardinality(S \cup {u}) <= Cardinality(S) + 1
<1>1. IsFiniteSet(S) BY FS_Subset DEF ResponseAssumption
<1>2. Cardinality(S) \in Nat BY <1>1, FS_CardinalityType
<1>3. Cardinality(S \cup {u}) = (IF u \in S THEN Cardinality(S) ELSE Cardinality(S) + 1)
  BY <1>1, FS_AddElement
<1> QED BY <1>2, <1>3

(* What a tier asks for: a command for people needs at least one.          *)
LEMMA NeededPeople ==
  ASSUME ResponseAssumption, NEW c \in Commands
  PROVE  Needed(c) \in Nat /\ (Human(c) => Needed(c) > 0)
BY DEF Needed, Human

(* Nothing is asked for at the start.                                      *)
LEMMA InitHolds == ResponseAssumption /\ Init => IInv
<1> SUFFICES ASSUME ResponseAssumption, Init PROVE IInv
  OBVIOUS
<1>1. TypeOK BY DEF Init, TypeOK, ResponseAssumption
<1>2. Untouched BY DEF Init, Untouched
<1>3. ReleasedAsAsked
  BY NeededPeople, FS_EmptySet DEF Init, ReleasedAsAsked
<1> QED BY <1>1, <1>2, <1>3 DEF IInv

(* confirm() releases a command for people with the last name it needs,    *)
(* and takes it off the list in the same step.                             *)
LEMMA ConfirmStep ==
  ASSUME ResponseAssumption, IInv, NEW c \in Commands, NEW u \in Users, Confirm(c, u)
  PROVE  IInv'
<1> USE DEF Confirm
<1>1. TypeOK'
  BY DEF IInv, TypeOK, ResponseAssumption
<1>2. Untouched'
  BY DEF IInv, TypeOK, Untouched
<1>3. ReleasedAsAsked'
  <2> SUFFICES ASSUME NEW d \in Commands
               PROVE  Human(d) =>
                        /\ released'[d] <= 1
                        /\ released'[d] = 1 => /\ Cardinality(confirmed'[d]) = Needed(d)
                                               /\ d \notin pending' /\ d \notin expired
                        /\ released'[d] = 0 => Cardinality(confirmed'[d]) < Needed(d)
                        /\ d \in expired => d \notin pending' /\ Expired(d)
                        /\ created[d] # -1 => d \in pending' \cup expired \/ released'[d] = 1
    BY DEF ReleasedAsAsked, Expired
  <2> DEFINE P(x) == Human(x) =>
                       /\ released[x] <= 1
                       /\ released[x] = 1 => /\ Cardinality(confirmed[x]) = Needed(x)
                                             /\ x \notin pending /\ x \notin expired
                       /\ released[x] = 0 => Cardinality(confirmed[x]) < Needed(x)
                       /\ x \in expired => x \notin pending /\ Expired(x)
                       /\ created[x] # -1 => x \in pending \cup expired \/ released[x] = 1
  <2>1. P(d) BY DEF IInv, ReleasedAsAsked
  <2>2. CASE d # c
    BY <2>1, <2>2 DEF IInv, TypeOK
  <2>3. CASE d = c
    <3>1. /\ confirmed[c] \in SUBSET Users /\ released[c] \in Nat
          /\ confirmed'[c] = confirmed[c] \cup {u}
      BY DEF IInv, TypeOK, ResponseAssumption
    <3>2. /\ Cardinality(confirmed[c]) \in Nat /\ Cardinality(confirmed'[c]) \in Nat
          /\ Cardinality(confirmed'[c]) <= Cardinality(confirmed[c]) + 1
      BY <3>1, OneMoreName
    <3>3. Needed(c) \in Nat BY NeededPeople
    <3>4. CASE Cardinality(confirmed'[c]) >= Needed(c)
      <4>1. released'[c] = released[c] + 1
        BY <3>4, <3>1 DEF IInv, TypeOK
      <4>2. CASE Human(c)
        <5>1. c \in pending /\ released[c] = 0 BY <2>1, <2>3, <3>1, <4>2
        <5>2. pending' = pending \ {c} BY <3>4, <4>2
        <5> QED BY <2>1, <2>3, <3>1, <3>2, <3>3, <3>4, <4>1, <4>2, <5>1, <5>2
      <4>3. CASE ~Human(c)
        BY <2>1, <2>3, <3>1, <4>1, <4>3
      <4> QED BY <4>2, <4>3
    <3>5. CASE ~(Cardinality(confirmed'[c]) >= Needed(c))
      <4>1. released'[c] = released[c] /\ pending' = pending BY <3>5
      <4>2. Human(c) => released[c] = 0 BY <2>1, <2>3, <3>1
      <4> QED BY <2>1, <2>3, <3>1, <3>2, <3>3, <3>5, <4>1, <4>2
    <3> QED BY <3>4, <3>5
  <2> QED BY <2>2, <2>3
<1> QED BY <1>1, <1>2, <1>3 DEF IInv

(* The other methods, and time: an expired command stays expired.          *)
LEMMA OtherSteps ==
  ASSUME ResponseAssumption, IInv, Next \/ UNCHANGED vars
  PROVE  IInv'
<1> USE DEF IInv
<1>1. ASSUME NEW c \in Commands, Enqueue(c) PROVE IInv'
  <2>1. TypeOK' BY <1>1 DEF TypeOK, Enqueue
  <2>2. Untouched' BY <1>1 DEF TypeOK, Untouched, Enqueue
  <2>3. ReleasedAsAsked'
    BY <1>1 DEF TypeOK, Untouched, ReleasedAsAsked, Expired, Enqueue
  <2> QED BY <2>1, <2>2, <2>3
<1>2. ASSUME NEW c \in Commands, NEW u \in Users, Confirm(c, u) PROVE IInv'
  BY <1>2, ConfirmStep
<1>3. ASSUME NEW c \in Commands, Execute(c) PROVE IInv'
  <2>1. TypeOK' BY <1>3 DEF TypeOK, Execute, ResponseAssumption
  <2>2. Untouched' BY <1>3 DEF Untouched, Execute
  <2>3. ReleasedAsAsked'
    BY <1>3 DEF TypeOK, ReleasedAsAsked, Expired, Execute
  <2> QED BY <2>1, <2>2, <2>3
<1>4. CASE ExpirePending
  <2>1. TypeOK' BY <1>4 DEF TypeOK, ExpirePending
  <2>2. Untouched' BY <1>4 DEF Untouched, ExpirePending
  <2>3. ReleasedAsAsked'
    BY <1>4 DEF TypeOK, ReleasedAsAsked, Expired, ExpirePending
  <2> QED BY <2>1, <2>2, <2>3
<1>5. CASE Tick
  <2>1. TypeOK' BY <1>5 DEF TypeOK, Tick, ResponseAssumption
  <2>2. Untouched' BY <1>5 DEF Untouched, Tick
  <2>3. \A c \in Commands : Lifetime[Tier[c]] \in Nat
    BY DEF ResponseAssumption
  <2>4. \A c \in Commands : Expired(c) => Expired(c)'
    BY <1>5, <2>3 DEF TypeOK, Expired, Tick
  <2>5. ReleasedAsAsked'
    BY <1>5, <2>4 DEF ReleasedAsAsked, Tick
  <2> QED BY <2>1, <2>2, <2>5
<1>6. CASE UNCHANGED vars
  BY <1>6 DEF vars, TypeOK, Untouched, ReleasedAsAsked, Expired
<1> QED BY <1>1, <1>2, <1>3, <1>4, <1>5, <1>6 DEF Next

(* Whatever callers confirm, execute or sweep, in whatever order: commands *)
(* for people are released once, by as many different people as the tier   *)
(* asks for, and are then in no other list (response.rs, confirm and       *)
(* expire_pending).                                                        *)
THEOREM ReleaseCorrect ==
  ASSUME ResponseAssumption
  PROVE  Spec => []ReleasedAsAsked
<1>1. Init => IInv BY InitHolds
<1>2. IInv /\ [Next]_vars => IInv' BY OtherSteps
<1>3. IInv => ReleasedAsAsked BY DEF IInv
<1> QED BY <1>1, <1>2, <1>3, PTL DEF Spec

(* The lists and the counts have their types.                              *)
THEOREM ResponseTyped ==
  ASSUME ResponseAssumption
  PROVE  Spec => []TypeOK
<1>1. Init => IInv BY InitHolds
<1>2. IInv /\ [Next]_vars => IInv' BY OtherSteps
<1>3. IInv => TypeOK BY DEF IInv
<1> QED BY <1>1, <1>2, <1>3, PTL DEF Spec

-----------------------------------------------------------------------------
(* The parts side by side                                                  *)

(* A step of the whole is a step of one part; the others rest.             *)
LEMMA PartSteps ==
  ASSUME [AllNext]_allVars
  PROVE  /\ [Rules!Next]_(Rules!vars) /\ [Enrich!Next]_(Enrich!vars) /\ [Ai!Next]_(Ai!vars)
         /\ [Next]_vars /\ [Desk!Next]_(Desk!vars)
<1>1. [Rules!Next]_(Rules!vars)
  BY DEF AllNext, allVars, ruleVars, Rules!vars, Rules!loadVars, Rules!watchVars
<1>2. [Enrich!Next]_(Enrich!vars)
  BY DEF AllNext, allVars, enrichVars, Enrich!vars
<1>3. [Ai!Next]_(Ai!vars)
  BY DEF AllNext, allVars, aiVars, Ai!vars
<1>4. [Next]_vars
  BY DEF AllNext, allVars, responseVars
<1>5. [Desk!Next]_(Desk!vars)
  BY DEF AllNext, allVars, deskVars, Desk!Next, Desk!vars, Desk!storeVars, Desk!listVars, Desk!alertVars
<1>6. QED
  BY <1>1, <1>2, <1>3, <1>4, <1>5

-----------------------------------------------------------------------------
(* The rule engine                                                         *)

RuleMap == [Rules!Ids -> RuleDefs \cup {None}]

(* The file's directory has been opened.                                   *)
Opened(f) == \E j \in 1..opened : DirOrder[j] = DirOf[f]

LoadTyped ==
  /\ disk \in [RuleFiles -> Rules!Content] /\ seen \in [RuleFiles -> Rules!Content]
  /\ compiled \in RuleMap /\ rules \in RuleMap
  /\ opened \in Nat /\ opened <= Len(DirOrder) /\ edits \in Nat /\ listing \subseteq RuleFiles

(* Every rule compiled comes from a file read, and every file read as a    *)
(* rule has its id there.                                                  *)
Compiled ==
  /\ \A i \in Rules!Ids : compiled[i] # None => \E f \in RuleFiles : seen[f] = compiled[i]
  /\ \A f \in RuleFiles : seen[f] \in RuleDefs => compiled[seen[f].id] # None

LoadInv ==
  /\ LoadTyped /\ Compiled
  /\ \A f \in listing : Opened(f) /\ seen[f] = None
  /\ \A f \in RuleFiles : seen[f] # None => Opened(f)
  /\ edits = 0 => \A f \in RuleFiles \ listing :
                    Opened(f) /\ dirs[DirOf[f]] = "ok" => seen[f] = disk[f]
  /\ pc \in {"watch", "return", "ready"} =>
       rules = compiled /\ listing = {} /\ opened = Len(DirOrder)

(* What the proof needs of the constants.                                  *)
LEMMA RuleConstants ==
  /\ Len(DirOrder) \in Nat /\ None \notin RuleDefs /\ Bad \notin RuleDefs
  /\ \A f \in RuleFiles : \E j \in 1..Len(DirOrder) : DirOrder[j] = DirOf[f]
  /\ \A j, k \in 1..Len(DirOrder) : DirOrder[j] = DirOrder[k] => j = k
<1>1. /\ DirOrder \in Seq(Rules!Range(DirOrder)) /\ Rules!IsInjective(DirOrder)
      /\ DirOf \in [RuleFiles -> Rules!Range(DirOrder)]
      /\ None \notin RuleDefs /\ Bad \notin RuleDefs
  BY AnalysisAssumption DEF Rules!RuleAssumption
<1>2. Len(DirOrder) \in Nat /\ DOMAIN DirOrder = 1..Len(DirOrder)
  BY <1>1, LenProperties
<1>3. QED
  BY <1>1, <1>2 DEF Rules!Range, Rules!IsInjective

(* One file is read: it was not read before, so no rule loses its file.    *)
LEMMA ReadFileKeeps ==
  ASSUME LoadInv, NEW f \in RuleFiles, Rules!ReadFile(f)
  PROVE  LoadInv'
<1>1. /\ f \in listing /\ listing' = listing \ {f} /\ seen' = [seen EXCEPT ![f] = disk[f]]
      /\ UNCHANGED <<disk, dirs, pc, opened, rules, edits>> /\ pc = "load"
  BY DEF Rules!ReadFile
<1>2. seen[f] = None /\ Opened(f) /\ LoadTyped
  BY <1>1 DEF LoadInv
<1>3. \A g \in RuleFiles : seen'[g] = IF g = f THEN disk[f] ELSE seen[g]
  BY <1>1, <1>2 DEF LoadTyped
<1>4. Compiled' /\ compiled' \in RuleMap
  <2>1. CASE disk[f] \in RuleDefs
    <3>1. compiled' = [compiled EXCEPT ![disk[f].id] = disk[f]] /\ disk[f].id \in Rules!Ids
      BY <2>1 DEF Rules!ReadFile, Rules!Ids
    <3>2. /\ compiled' \in RuleMap
          /\ \A i \in Rules!Ids : compiled'[i] = IF i = disk[f].id THEN disk[f] ELSE compiled[i]
      BY <1>2, <2>1, <3>1 DEF LoadTyped, RuleMap
    <3>3. ASSUME NEW i \in Rules!Ids, compiled'[i] # None
          PROVE  \E g \in RuleFiles : seen'[g] = compiled'[i]
      <4>1. CASE i = disk[f].id
        BY <1>3, <3>2, <4>1
      <4>2. CASE i # disk[f].id
        <5>1. PICK g \in RuleFiles : seen[g] = compiled[i]
          BY <3>2, <3>3, <4>2 DEF LoadInv, Compiled
        <5>2. g # f
          BY <1>2, <3>2, <3>3, <4>2, <5>1
        <5>3. QED
          BY <1>3, <3>2, <4>2, <5>1, <5>2
      <4>3. QED
        BY <4>1, <4>2
    <3>4. ASSUME NEW g \in RuleFiles, seen'[g] \in RuleDefs
          PROVE  compiled'[seen'[g].id] # None
      <4>1. seen'[g].id \in Rules!Ids
        BY <3>4 DEF Rules!Ids
      <4>2. CASE seen'[g].id = disk[f].id
        BY <2>1, <3>2, <4>1, <4>2, RuleConstants
      <4>3. CASE seen'[g].id # disk[f].id
        BY <1>3, <3>2, <3>4, <4>1, <4>3 DEF LoadInv, Compiled
      <4>4. QED
        BY <4>2, <4>3
    <3>5. QED
      BY <3>2, <3>3, <3>4 DEF Compiled
  <2>2. CASE disk[f] \notin RuleDefs
    <3>1. compiled' = compiled
      BY <2>2 DEF Rules!ReadFile
    <3>2. ASSUME NEW i \in Rules!Ids, compiled[i] # None
          PROVE  \E g \in RuleFiles : seen'[g] = compiled[i]
      <4>1. PICK g \in RuleFiles : seen[g] = compiled[i]
        BY <3>2 DEF LoadInv, Compiled
      <4>2. g # f
        BY <1>2, <3>2, <4>1
      <4>3. QED
        BY <1>3, <4>1, <4>2
    <3>3. \A g \in RuleFiles : seen'[g] \in RuleDefs => seen'[g] = seen[g]
      BY <1>3, <2>2
    <3>4. QED
      BY <1>2, <3>1, <3>2, <3>3 DEF LoadInv, LoadTyped, Compiled
  <2>3. QED
    BY <2>1, <2>2
<1>5. LoadTyped'
  BY <1>1, <1>2, <1>4 DEF LoadTyped, Rules!Content
<1>6. \A g : Opened(g)' <=> Opened(g)
  BY <1>1 DEF Opened
<1>7. \A g \in listing' : Opened(g)' /\ seen'[g] = None
  BY <1>1, <1>2, <1>3, <1>6 DEF LoadInv, LoadTyped
<1>8. \A g \in RuleFiles : seen'[g] # None => Opened(g)'
  BY <1>2, <1>3, <1>6 DEF LoadInv
<1>9. edits' = 0 => \A g \in RuleFiles \ listing' :
                      Opened(g)' /\ dirs'[DirOf[g]] = "ok" => seen'[g] = disk'[g]
  BY <1>1, <1>3, <1>6 DEF LoadInv
<1>10. QED
  BY <1>1, <1>4, <1>5, <1>7, <1>8, <1>9 DEF LoadInv

(* The next directory is opened: none of its files was read before, for    *)
(* no directory is configured twice.                                       *)
LEMMA OpenDirKeeps ==
  ASSUME LoadInv, Rules!OpenDir
  PROVE  LoadInv'
<1> DEFINE d == DirOrder[opened + 1]
<1>1. /\ UNCHANGED <<disk, dirs, compiled, seen, rules, edits>>
      /\ pc = "load" /\ pc' \in {"load", "failed"} /\ listing = {} /\ opened < Len(DirOrder)
      /\ opened' = opened + 1
      /\ listing' = IF dirs[d] = "ok" THEN {f \in RuleFiles : DirOf[f] = d /\ disk[f] # None} ELSE {}
  BY DEF Rules!OpenDir
<1>2. LoadTyped /\ Compiled
  BY DEF LoadInv
<1>3. opened \in Nat /\ opened + 1 \in 1..Len(DirOrder) /\ opened' \in Nat /\ opened' <= Len(DirOrder)
  BY <1>1, <1>2, RuleConstants DEF LoadTyped
<1>4. ASSUME NEW f
      PROVE  Opened(f)' <=> Opened(f) \/ DirOf[f] = d
  <2>1. 1..opened' = 1..opened \cup {opened + 1}
    BY <1>1, <1>3
  <2>2. QED
    BY <2>1 DEF Opened
<1>5. ASSUME NEW f \in RuleFiles, DirOf[f] = d
      PROVE  seen[f] = None
  <2>1. SUFFICES ASSUME Opened(f) PROVE FALSE
    BY DEF LoadInv
  <2>2. PICK j \in 1..opened : DirOrder[j] = DirOf[f]
    BY <2>1 DEF Opened
  <2>3. j \in 1..Len(DirOrder) /\ j # opened + 1
    BY <1>3, <2>2, RuleConstants
  <2>4. QED
    BY <1>3, <1>5, <2>2, <2>3, RuleConstants
<1>6. LoadTyped' /\ Compiled'
  BY <1>1, <1>2, <1>3 DEF LoadTyped, Compiled
<1>7. \A f \in listing' : Opened(f)' /\ seen'[f] = None
  BY <1>1, <1>4, <1>5
<1>8. \A f \in RuleFiles : seen'[f] # None => Opened(f)'
  BY <1>1, <1>4 DEF LoadInv
<1>9. ASSUME edits' = 0, NEW f \in RuleFiles \ listing', Opened(f)', dirs'[DirOf[f]] = "ok"
      PROVE  seen'[f] = disk'[f]
  <2>1. CASE DirOf[f] = d
    BY <1>1, <1>5, <1>9, <2>1
  <2>2. CASE DirOf[f] # d
    BY <1>1, <1>4, <1>9, <2>2 DEF LoadInv
  <2>3. QED
    BY <2>1, <2>2
<1>10. QED
  BY <1>1, <1>6, <1>7, <1>8, <1>9 DEF LoadInv

(* The load ends, or a file changes: what was read stays.                  *)
LEMMA OtherRuleSteps ==
  ASSUME LoadInv, [Rules!Next]_(Rules!vars)
  PROVE  LoadInv'
<1>0. \A f : UNCHANGED opened => (Opened(f)' <=> Opened(f))
  BY DEF Opened
<1>1. CASE Rules!EndLoad
  <2>1. UNCHANGED <<disk, dirs, opened, listing, compiled, seen, edits>>
    BY <1>1 DEF Rules!EndLoad, Rules!loadVars
  <2>2. \/ pc' = "failed" /\ rules' = rules
        \/ rules' = compiled /\ listing = {} /\ opened = Len(DirOrder)
    BY <1>1 DEF Rules!EndLoad
  <2>3. QED
    BY <1>0, <2>1, <2>2 DEF LoadInv, LoadTyped, Compiled
<1>2. CASE Rules!Watch \/ Rules!Return \/ Rules!TaskRecv \/ Rules!TaskWake \/ UNCHANGED Rules!vars
  <2>1. UNCHANGED <<disk, dirs, opened, listing, compiled, seen, rules, edits>>
    BY <1>2 DEF Rules!Watch, Rules!Return, Rules!TaskRecv, Rules!TaskWake, Rules!vars, Rules!loadVars
  <2>2. pc' \in {"watch", "return", "ready"} => pc \in {"watch", "return", "ready"}
    BY <1>2 DEF Rules!Watch, Rules!Return, Rules!TaskRecv, Rules!TaskWake, Rules!vars
  <2>3. QED
    BY <1>0, <2>1, <2>2 DEF LoadInv, LoadTyped, Compiled
<1>3. CASE \E f \in RuleFiles, content \in Rules!Content : Rules!Edit(f, content)
  <2>1. PICK f \in RuleFiles, content \in Rules!Content : Rules!Edit(f, content)
    BY <1>3
  <2>2. /\ UNCHANGED <<dirs, opened, listing, compiled, seen, rules, pc>>
        /\ edits' = edits + 1 /\ disk' = [disk EXCEPT ![f] = content]
    BY <2>1 DEF Rules!Edit, Rules!loadVars
  <2>3. edits \in Nat /\ edits' \in Nat /\ edits' # 0
    BY <2>2 DEF LoadInv, LoadTyped
  <2>4. LoadTyped'
    BY <2>2, <2>3 DEF LoadInv, LoadTyped
  <2>5. QED
    BY <1>0, <2>2, <2>3, <2>4 DEF LoadInv, Compiled
<1>4. CASE \/ \E e \in RuleEvents : Rules!Evaluate(e)
           \/ \E r \in RuleDefs : Rules!CreateRule(r)
           \/ \E i \in Rules!Ids, r \in RuleDefs : Rules!UpdateRule(i, r)
           \/ \E i \in Rules!Ids : Rules!DeleteRule(i)
  <2>1. UNCHANGED <<disk, dirs, pc, opened, listing, compiled, seen, rules, edits>>
    BY <1>4 DEF Rules!Evaluate, Rules!CreateRule, Rules!UpdateRule, Rules!DeleteRule, Rules!Upsert,
                Rules!loadVars
  <2>2. QED
    BY <1>0, <2>1 DEF LoadInv, LoadTyped, Compiled
<1>5. QED
  BY <1>1, <1>2, <1>3, <1>4, OpenDirKeeps, ReadFileKeeps DEF Rules!Next, Rules!EngineStep

(* load_rules: a broken file costs no other file its rule, whichever files *)
(* are broken and whatever is edited while the directories are read.       *)
THEOREM LoadedCorrect == AllSpec => []LoadedWhatWasRead
<1>1. AllInit => LoadInv
  <2>1. SUFFICES ASSUME Rules!Init PROVE LoadInv
    BY DEF AllInit
  <2>2. LoadTyped
    BY <2>1, RuleConstants DEF Rules!Init, LoadTyped, RuleMap, Rules!Empty, Rules!Content
  <2>3. Compiled
    BY <2>1, RuleConstants DEF Rules!Init, Compiled, Rules!Empty
  <2>4. \A f : ~Opened(f)
    BY <2>1 DEF Rules!Init, Opened
  <2>5. QED
    BY <2>1, <2>2, <2>3, <2>4 DEF Rules!Init, LoadInv
<1>2. LoadInv /\ [AllNext]_allVars => LoadInv'
  BY PartSteps, OtherRuleSteps
<1>3. LoadInv => LoadedWhatWasRead
  <2>1. SUFFICES ASSUME LoadInv, pc \in {"watch", "return", "ready"}
                 PROVE  /\ \A i \in Rules!InForce : \E f \in RuleFiles : seen[f] = rules[i]
                        /\ \A f \in RuleFiles : seen[f] \in RuleDefs => seen[f].id \in Rules!InForce
                        /\ \A f \in RuleFiles : edits = 0 /\ dirs[DirOf[f]] = "ok" => seen[f] = disk[f]
    BY DEF LoadedWhatWasRead, Rules!LoadedWhatWasRead
  <2>2. rules = compiled /\ listing = {} /\ opened = Len(DirOrder) /\ Compiled
    BY <2>1 DEF LoadInv
  <2>3. \A f \in RuleFiles : Opened(f)
    BY <2>2, RuleConstants DEF Opened
  <2>4. QED
    BY <2>1, <2>2, <2>3 DEF LoadInv, Compiled, Rules!InForce, Rules!Ids
<1> QED BY <1>1, <1>2, <1>3, PTL DEF AllSpec

-----------------------------------------------------------------------------
(* The event store                                                         *)

Results == {"open", "ok", "error", "killed"}

StoreTyped ==
  /\ clock \in Nat /\ stored \subseteq Rows
  /\ result \in [Writers -> Results \cup {None}]
  /\ written \in [Writers -> Nat] /\ \A w \in Writers : written[w] <= Len(Batch[w])
  /\ lock \in Writers \cup {None}

(* Only the open transaction that has the lock has written.                *)
Locking ==
  /\ lock # None => result[lock] = "open"
  /\ \A w \in Writers : lock # w /\ result[w] \in {None, "open"} => written[w] = 0

(* What the transaction has written will not clash when it commits.        *)
Ahead ==
  \A w \in Writers : lock = w =>
    /\ \A e, f \in Desk!Inserted(w) : e.id = f.id => e = f
    /\ \A e \in Desk!Inserted(w), f \in stored : e.id # f.id

Kept(e) == \E w \in Writers : result[w] = "ok" /\ e \in Desk!Range(Batch[w])

Whole ==
  /\ \A e \in Rows : Kept(e) => e \in stored \/ \E p \in Policies : Desk!TooOld(e, p)
  /\ \A e \in stored : Kept(e)
  /\ \A e, f \in stored : e.id = f.id => e = f

StoreInv == StoreTyped /\ Locking /\ Ahead /\ Whole

(* What the proofs need of the constants.                                  *)
LEMMA StoreConstants ==
  /\ None \notin Writers /\ None \notin Results
  /\ \A w \in Writers : Batch[w] \in Seq(Rows) /\ Len(Batch[w]) \in Nat
  /\ \A w \in Writers : Desk!Range(Batch[w]) = {Batch[w][i] : i \in 1..Len(Batch[w])}
  /\ \A w \in Writers : Desk!Range(Batch[w]) \subseteq Rows
  /\ DayLength \in Nat /\ DayLength > 0
  /\ \A e \in Rows : e.time \in Int
  /\ \A p \in Policies : p.age \in Int
<1>1. Desk!StoreAssumption
  BY AnalysisAssumption DEF Desk!DesktopAssumption
<1>2. \A w \in Writers : Batch[w] \in Seq(Rows)
  BY <1>1 DEF Desk!StoreAssumption
<1>3. \A w \in Writers : Len(Batch[w]) \in Nat /\ DOMAIN Batch[w] = 1..Len(Batch[w])
  BY <1>2, LenProperties
<1>4. \A w \in Writers : \A i \in 1..Len(Batch[w]) : Batch[w][i] \in Rows
  BY <1>2, ElementOfSeq
<1>5. \A w \in Writers : Desk!Range(Batch[w]) = {Batch[w][i] : i \in 1..Len(Batch[w])}
  BY <1>3 DEF Desk!Range
<1>6. DayLength \in Nat /\ DayLength > 0
  BY <1>1 DEF Desk!StoreAssumption
<1>7. \A e \in Rows : e.time \in Nat \cup {-1}
  BY <1>1 DEF Desk!StoreAssumption, Desk!NoTime
<1>8. \A e \in Rows : e.time \in Int
  BY <1>7
<1>9. None \notin Writers /\ None \notin Results /\ \A p \in Policies : p.age \in Int
  BY <1>1 DEF Desk!StoreAssumption, Results
<1>10. \A w \in Writers : Desk!Range(Batch[w]) \subseteq Rows
  BY <1>4, <1>5
<1>11. QED
  BY <1>2, <1>3, <1>5, <1>6, <1>8, <1>9, <1>10

(* What is too old stays too old.                                          *)
LEMMA OldStaysOld ==
  ASSUME NEW e \in Rows, NEW p \in Policies, clock \in Nat, clock' \in Nat, clock <= clock',
         Desk!TooOld(e, p)
  PROVE  Desk!TooOld(e, p)'
<1>1. \A t \in Int : t \div DayLength \in Int
  BY StoreConstants
<1>2. \A a, b \in Nat : a <= b => a \div DayLength <= b \div DayLength
  BY StoreConstants
<1>3. Desk!Day(clock) <= Desk!Day(clock') /\ Desk!Day(clock) \in Int /\ Desk!Day(clock') \in Int
  BY <1>1, <1>2 DEF Desk!Day
<1>4. Desk!Day(e.time) \in Int /\ p.age \in Int
  BY <1>1, StoreConstants DEF Desk!Day
<1>5. \A a, b, c, d \in Int : a < b - d /\ b <= c => a < c - d
  OBVIOUS
<1>6. Desk!Day(e.time) < Desk!Day(clock) - p.age => Desk!Day(e.time) < Desk!Day(clock') - p.age
  BY <1>3, <1>4, <1>5
<1>7. QED
  BY <1>6 DEF Desk!TooOld

(* A transaction begins, and an empty one is done.                         *)
LEMMA BeginKeeps ==
  ASSUME StoreInv, NEW w \in Writers, Desk!Begin(w)
  PROVE  StoreInv'
<1>1. /\ UNCHANGED <<clock, stored, lock, written>> /\ result[w] = None
      /\ result' = [result EXCEPT ![w] = IF Batch[w] = <<>> THEN "ok" ELSE "open"]
  BY DEF Desk!Begin
<1>2. StoreTyped /\ lock # w
  BY <1>1, StoreConstants DEF StoreInv, Locking, Results
<1>3. \A v \in Writers : result'[v] = IF v # w THEN result[v] ELSE IF Batch[w] = <<>> THEN "ok" ELSE "open"
  BY <1>1, <1>2 DEF StoreTyped
<1>4. StoreTyped'
  BY <1>1, <1>2 DEF StoreTyped, Results
<1>5. Locking'
  BY <1>1, <1>2, <1>3 DEF StoreInv, Locking, StoreTyped
<1>6. Ahead'
  BY <1>1 DEF StoreInv, Ahead, Desk!Inserted
<1>7. \A e : Kept(e)' <=> Kept(e)
  <2>1. Batch[w] = <<>> => Desk!Range(Batch[w]) = {}
    <3>1. Len(<<>>) = 0 /\ 1..0 = {}
      BY EmptySeq
    <3>2. QED
      BY <3>1, StoreConstants
  <2>2. result[w] # "ok"
    BY <1>1, StoreConstants DEF Results
  <2>3. QED
    BY <1>3, <2>1, <2>2 DEF Kept
<1>8. Whole'
  BY <1>1, <1>7 DEF StoreInv, Whole, Desk!TooOld, Desk!Day
<1>9. QED
  BY <1>4, <1>5, <1>6, <1>8 DEF StoreInv

(* A transaction ends without a commit: nothing of it was kept.            *)
LEMMA RollbackKeeps ==
  ASSUME StoreInv, NEW w \in Writers, NEW r \in {"error", "killed"},
         Desk!Open(w), Desk!Rollback(w, r)
  PROVE  StoreInv'
<1>1. /\ UNCHANGED <<clock, stored>> /\ result[w] = "open"
      /\ result' = [result EXCEPT ![w] = r]
      /\ written' = [written EXCEPT ![w] = 0]
      /\ lock' = IF lock = w THEN None ELSE lock
  BY DEF Desk!Rollback, Desk!Open
<1>2. StoreTyped /\ r \in Results /\ r # "ok" /\ r # None /\ r # "open"
  BY StoreConstants DEF StoreInv, Results
<1>3. /\ \A v \in Writers : result'[v] = IF v = w THEN r ELSE result[v]
      /\ \A v \in Writers : written'[v] = IF v = w THEN 0 ELSE written[v]
  BY <1>1, <1>2 DEF StoreTyped
<1>4. StoreTyped'
  BY <1>1, <1>2, <1>3, StoreConstants DEF StoreTyped, Results
<1>5. Locking'
  BY <1>1, <1>2, <1>3 DEF StoreInv, Locking, StoreTyped
<1>6. Ahead'
  <2>1. ASSUME NEW v \in Writers, lock' = v
        PROVE  lock = v /\ Desk!Inserted(v)' = Desk!Inserted(v)
    BY <1>1, <1>3, <2>1, StoreConstants DEF Desk!Inserted
  <2>2. QED
    BY <1>1, <2>1 DEF StoreInv, Ahead
<1>7. \A e : Kept(e)' <=> Kept(e)
  BY <1>1, <1>2, <1>3 DEF Kept
<1>8. Whole'
  BY <1>1, <1>7 DEF StoreInv, Whole, Desk!TooOld, Desk!Day
<1>9. QED
  BY <1>4, <1>5, <1>6, <1>8 DEF StoreInv

(* The next row of a transaction clashes, or it will not when it commits.  *)
LEMMA InsertKeeps ==
  ASSUME StoreInv, NEW w \in Writers, Desk!Insert(w)
  PROVE  StoreInv'
<1> DEFINE e == Batch[w][written[w] + 1]
<1>1. Desk!Open(w) /\ lock \in {None, w} /\ written[w] < Len(Batch[w])
  BY DEF Desk!Insert
<1>2. CASE e.id \in Desk!Ids(stored \cup Desk!Inserted(w))
  BY <1>1, <1>2, RollbackKeeps DEF Desk!Insert
<1>3. CASE e.id \notin Desk!Ids(stored \cup Desk!Inserted(w))
  <2>1. /\ UNCHANGED <<clock, stored, result>>
        /\ lock' = w /\ written' = [written EXCEPT ![w] = @ + 1]
    BY <1>3 DEF Desk!Insert
  <2>2. StoreTyped /\ written[w] \in Nat /\ Len(Batch[w]) \in Nat
    BY StoreConstants DEF StoreInv, StoreTyped
  <2>3. \A v \in Writers : written'[v] = IF v = w THEN written[w] + 1 ELSE written[v]
    BY <2>1, <2>2 DEF StoreTyped
  <2>4. written' \in [Writers -> Nat] /\ written[w] + 1 <= Len(Batch[w])
    BY <1>1, <2>1, <2>2 DEF StoreTyped
  <2>5. StoreTyped'
    BY <2>1, <2>2, <2>3, <2>4 DEF StoreTyped
  <2>6. Locking'
    BY <1>1, <2>1, <2>3, StoreConstants DEF StoreInv, Locking, Desk!Open
  <2>7. Desk!Inserted(w)' = Desk!Inserted(w) \cup {e}
    <3>1. 1..(written[w] + 1) = 1..written[w] \cup {written[w] + 1}
      BY <2>2
    <3>2. QED
      BY <2>3, <3>1 DEF Desk!Inserted
  <2>8. /\ \A f, g \in Desk!Inserted(w) : f.id = g.id => f = g
        /\ \A f \in Desk!Inserted(w), g \in stored : f.id # g.id
    <3>1. CASE lock = w
      BY <3>1 DEF StoreInv, Ahead
    <3>2. CASE lock # w
      <4>1. written[w] = 0
        BY <1>1, <3>2 DEF StoreInv, Locking, Desk!Open
      <4>2. 1..0 = {}
        OBVIOUS
      <4>3. QED
        BY <4>1, <4>2 DEF Desk!Inserted
    <3>3. QED
      BY <3>1, <3>2
  <2>9. \A f \in stored \cup Desk!Inserted(w) : f.id # e.id
    BY <1>3 DEF Desk!Ids
  <2>10. Ahead'
    BY <2>1, <2>7, <2>8, <2>9 DEF Ahead
  <2>11. Whole'
    BY <2>1 DEF StoreInv, Whole, Kept, Desk!TooOld, Desk!Day
  <2>12. QED
    BY <2>5, <2>6, <2>10, <2>11 DEF StoreInv
<1>4. QED
  BY <1>2, <1>3

(* The commit: the whole batch is in the table at once.                    *)
LEMMA CommitKeeps ==
  ASSUME StoreInv, NEW w \in Writers, Desk!Commit(w)
  PROVE  StoreInv'
<1>1. /\ UNCHANGED <<clock, written>> /\ result[w] = "open" /\ lock = w /\ lock' = None
      /\ written[w] = Len(Batch[w]) /\ stored' = stored \cup Desk!Inserted(w)
      /\ result' = [result EXCEPT ![w] = "ok"]
  BY DEF Desk!Commit, Desk!Open
<1>2. StoreTyped /\ "ok" \in Results /\ "ok" # None
  BY StoreConstants DEF StoreInv, Results
<1>3. \A v \in Writers : result'[v] = IF v = w THEN "ok" ELSE result[v]
  BY <1>1, <1>2 DEF StoreTyped
<1>4. Desk!Inserted(w) = Desk!Range(Batch[w]) /\ Desk!Inserted(w) \subseteq Rows
  BY <1>1, StoreConstants DEF Desk!Inserted
<1>5. StoreTyped'
  BY <1>1, <1>2, <1>4 DEF StoreTyped
<1>6. Locking'
  BY <1>1, <1>2, <1>3 DEF StoreInv, Locking
<1>7. Ahead'
  BY <1>1, StoreConstants DEF Ahead
<1>8. \A e : Kept(e)' <=> Kept(e) \/ e \in Desk!Inserted(w)
  BY <1>1, <1>3, <1>4 DEF Kept
<1>9. Whole'
  <2>1. \A e \in Rows : Kept(e)' => e \in stored' \/ \E p \in Policies : Desk!TooOld(e, p)'
    BY <1>1, <1>8 DEF StoreInv, Whole, Desk!TooOld, Desk!Day
  <2>2. \A e \in stored' : Kept(e)'
    BY <1>1, <1>8 DEF StoreInv, Whole
  <2>3. \A e, f \in stored' : e.id = f.id => e = f
    BY <1>1 DEF StoreInv, Whole, Ahead
  <2>4. QED
    BY <2>1, <2>2, <2>3 DEF Whole
<1>10. QED
  BY <1>5, <1>6, <1>7, <1>9 DEF StoreInv

(* Retention deletes only what is too old, and time passes.                *)
LEMMA RetentionKeeps ==
  ASSUME StoreInv, NEW p \in Policies, Desk!retention(p)
  PROVE  StoreInv'
<1>1. PICK D \in Desk!Deletions(p) :
        UNCHANGED <<clock, lock, written, result>> /\ stored' = stored \ D
  BY DEF Desk!retention
<1>2. \A e \in D : Desk!TooOld(e, p)
  BY DEF Desk!Deletions
<1>3. StoreTyped' /\ Locking' /\ Ahead'
  BY <1>1 DEF StoreInv, StoreTyped, Locking, Ahead, Desk!Inserted
<1>4. Whole'
  BY <1>1, <1>2 DEF StoreInv, Whole, Kept, Desk!TooOld, Desk!Day
<1>5. QED
  BY <1>3, <1>4 DEF StoreInv

(* Time passes: what is old stays old.                                     *)
LEMMA TickKeeps ==
  ASSUME StoreInv, Desk!StoreTick
  PROVE  StoreInv'
<1>1. UNCHANGED <<stored, lock, written, result>> /\ clock' = clock + 1
  BY DEF Desk!StoreTick
<1>2. clock \in Nat /\ clock' \in Nat /\ clock <= clock'
  BY <1>1 DEF StoreInv, StoreTyped
<1>3. StoreTyped' /\ Locking' /\ Ahead'
  BY <1>1, <1>2 DEF StoreInv, StoreTyped, Locking, Ahead, Desk!Inserted
<1>4. \A e \in Rows, p \in Policies : Desk!TooOld(e, p) => Desk!TooOld(e, p)'
  BY <1>2, OldStaysOld
<1>5. Whole'
  BY <1>1, <1>4 DEF StoreInv, Whole, Kept
<1>6. QED
  BY <1>3, <1>5 DEF StoreInv

(* Every step of the store, and every step of the window over it.          *)
LEMMA StoreSteps ==
  ASSUME StoreInv, [Desk!Next]_(Desk!vars)
  PROVE  StoreInv'
<1>1. CASE UNCHANGED Desk!storeVars
  BY <1>1 DEF Desk!storeVars, StoreInv, StoreTyped, Locking, Ahead, Whole, Kept, Desk!Inserted,
              Desk!TooOld, Desk!Day
<1>2. CASE Desk!StoreNext
  <2>1. CASE \E w \in Writers : Desk!Fail(w) \/ Desk!Killed(w)
    BY <2>1, RollbackKeeps DEF Desk!Fail, Desk!Killed
  <2>2. QED
    BY <1>2, <2>1, BeginKeeps, InsertKeeps, CommitKeeps, RetentionKeeps, TickKeeps DEF Desk!StoreNext
<1>3. [Desk!StoreNext]_(Desk!storeVars)
  <2>1. CASE Desk!ListNext
    BY <2>1 DEF Desk!ListNext, Desk!LoadMore, Desk!Refresh, Desk!Fetch, Desk!Served, Desk!Arrived,
                Desk!FetchFailed
  <2>2. CASE Desk!AlertNext
    BY <2>2 DEF Desk!AlertNext, Desk!RaiseAlert, Desk!CheckNewAlerts, Desk!ShowNotification,
                Desk!CheckDone
  <2>3. CASE UNCHANGED Desk!vars
    BY <2>3 DEF Desk!vars
  <2>4. QED
    BY <2>1, <2>2, <2>3 DEF Desk!Next
<1>4. QED
  BY <1>1, <1>2, <1>3

(* The empty store.                                                        *)
LEMMA StoreInitHolds == Desk!StoreInit => StoreInv
<1>1. SUFFICES ASSUME Desk!StoreInit PROVE StoreInv
  OBVIOUS
<1>2. StoreTyped
  BY <1>1, StoreConstants DEF Desk!StoreInit, StoreTyped
<1>3. Locking
  BY <1>1 DEF Desk!StoreInit, Locking
<1>4. Ahead
  BY <1>1, StoreConstants DEF Desk!StoreInit, Ahead
<1>5. \A e : ~Kept(e)
  BY <1>1, StoreConstants DEF Desk!StoreInit, Kept, Results
<1>6. QED
  BY <1>1, <1>2, <1>3, <1>4, <1>5 DEF Desk!StoreInit, StoreInv, Whole

(* append is one transaction, and what retention deletes was too old:      *)
(* whatever fails, is killed or waits for the lock.                        *)
THEOREM BatchesCorrect == AllSpec => []BatchesWhole
<1>1. AllInit => StoreInv
  BY StoreInitHolds DEF AllInit, Desk!Init
<1>2. StoreInv /\ [AllNext]_allVars => StoreInv'
  BY PartSteps, StoreSteps
<1>3. StoreInv => BatchesWhole
  <2>1. SUFFICES ASSUME StoreInv PROVE BatchesWhole
    OBVIOUS
  <2> DEFINE kept == UNION {Desk!Range(Batch[w]) : w \in {x \in Writers : result[x] = "ok"}}
  <2>2. \A e : e \in kept <=> Kept(e)
    BY DEF Kept
  <2>3. kept \subseteq Rows
    BY StoreConstants
  <2>4. /\ \A e \in kept : e \in stored \/ \E p \in Policies : Desk!TooOld(e, p)
        /\ stored \subseteq kept
        /\ \A e, f \in stored : e.id = f.id => e = f
    <3> HIDE DEF kept
    <3>1. QED
      BY <2>1, <2>2, <2>3 DEF StoreInv, Whole
  <2>5. QED
    BY <2>4 DEF BatchesWhole, Desk!BatchesWhole
<1> QED BY <1>1, <1>2, <1>3, PTL DEF AllSpec

-----------------------------------------------------------------------------
(* Enrichment                                                              *)

(* What the proofs need of the constants.                                  *)
LEMMA EnrichConstants ==
  /\ MaxRisk \in Nat /\ \A e \in Enriched : e.risk \in Nat /\ e.risk <= MaxRisk
  /\ \A f \in Facts["virustotal"] : f.bad \in Nat /\ f.total \in Nat
<1>1. Enrich!EnrichmentAssumption
  BY AnalysisAssumption
<1>2. MaxRisk \in Nat /\ \A e \in Enriched : e.risk \in 0..MaxRisk
  BY <1>1 DEF Enrich!EnrichmentAssumption
<1>3. \A e \in Enriched : e.risk \in Nat /\ e.risk <= MaxRisk
  BY <1>2
<1>4. QED
  BY <1>1, <1>2, <1>3 DEF Enrich!EnrichmentAssumption

(* A bounded set of numbers has a greatest one.                            *)
LEMMA GreatestOf ==
  ASSUME NEW n \in Nat, NEW S, S # {}, \A x \in S : x \in Nat /\ x <= n
  PROVE  Enrich!Max(S) \in S
<1> DEFINE T == {n - x : x \in S}
<1>1. T \subseteq Nat /\ T # {}
  OBVIOUS
<1>2. IsWellFoundedOn(OpToRel(<, Nat), Nat)
  BY NatLessThanWellFounded
<1>3. PICK m \in T : \A k \in T : ~(<<k, m>> \in OpToRel(<, Nat))
  BY <1>1, <1>2, WFMin
<1>4. \A k \in T : ~(k < m)
  BY <1>1, <1>3 DEF OpToRel
<1>5. PICK x \in S : m = n - x
  OBVIOUS
<1>6. ASSUME NEW y \in S
      PROVE  x >= y
  <2>1. n - y \in T /\ x \in Nat /\ y \in Nat
    OBVIOUS
  <2>2. ~(n - y < n - x)
    BY <1>4, <1>5, <2>1
  <2>3. QED
    BY <2>1, <2>2
<1>7. QED
  BY <1>5, <1>6 DEF Enrich!Max

(* The scores of the indicator files are bounded, so there is a highest.   *)
LEMMA IocGainIsNat ==
  ASSUME NEW a
  PROVE  Enrich!IocGain(a) \in Nat
<1>1. \A i \in Enrich!Indicators : i.risk \in Nat /\ i.risk <= MaxRisk + 90
  <2>1. SUFFICES ASSUME NEW f \in IocFiles
                 PROVE  \A i \in IF f.kind = "csv" THEN Enrich!CsvEntries(f) ELSE Enrich!StixEntries(f) :
                          i.risk \in Nat /\ i.risk <= MaxRisk + 90
    BY DEF Enrich!Indicators
  <2>2. CASE f.kind = "csv"
    <3>1. \A r \in f.rows : r.risk \in (0..MaxRisk) \cup {None}
      BY <2>2, AnalysisAssumption DEF Enrich!EnrichmentAssumption
    <3>2. ASSUME NEW i \in Enrich!CsvEntries(f)
          PROVE  i.risk \in (0..MaxRisk) \cup {50}
      BY <3>1, <3>2 DEF Enrich!CsvEntries
    <3>3. QED
      BY <2>2, <3>2, EnrichConstants
  <2>3. CASE f.kind # "csv"
    <3>1. ASSUME NEW i \in Enrich!StixEntries(f)
          PROVE  i.risk \in {50, 70, 90}
      BY <3>1 DEF Enrich!StixEntries
    <3>2. QED
      BY <2>3, <3>1, EnrichConstants
  <2>4. QED
    BY <2>2, <2>3
<1>2. \A x \in Enrich!IocScores(a) : x \in Nat /\ x <= MaxRisk + 90
  BY <1>1 DEF Enrich!IocScores
<1>3. MaxRisk + 90 \in Nat
  BY EnrichConstants
<1>4. CASE Enrich!IocScores(a) # {}
  <2>1. Enrich!Max(Enrich!IocScores(a)) \in Nat
    BY <1>2, <1>3, <1>4, GreatestOf
  <2>2. QED
    BY <1>4, <2>1 DEF Enrich!IocGain
<1>5. QED
  BY <1>4 DEF Enrich!IocGain

(* What VirusTotal adds is never negative, also where the product falls    *)
(* short.                                                                  *)
LEMMA VirusTotalGains ==
  ASSUME NEW f \in Facts["virustotal"] \cup {None}
  PROVE  Enrich!VirusTotalGain(f) \subseteq Nat
<1>1. CASE f = None \/ f.total = 0 \/ f.bad = 0
  BY <1>1 DEF Enrich!VirusTotalGain
<1>2. CASE ~(f = None \/ f.total = 0 \/ f.bad = 0)
  <2> DEFINE a == 50 * f.bad
             exact == a \div f.total
  <2>1. f.bad \in Nat /\ f.total \in Nat /\ f.total > 0 /\ f.bad > 0
    BY <1>2, EnrichConstants
  <2>2. a \in Nat /\ a > 0
    BY <2>1
  <2>3. \A x, t \in Nat : t > 0 => x \div t \in Nat
    OBVIOUS
  <2>4. \A x, t \in Nat : x > 0 /\ t > 0 /\ x % t = 0 => x \div t - 1 \in Nat
    OBVIOUS
  <2>5. exact \in Nat
    BY <2>1, <2>2, <2>3
  <2>6. a % f.total = 0 => exact - 1 \in Nat
    BY <2>1, <2>2, <2>4
  <2>7. Enrich!VirusTotalGain(f) = IF a % f.total = 0 THEN {exact - 1, exact} ELSE {exact}
    BY <1>2 DEF Enrich!VirusTotalGain
  <2>8. QED
    <3> HIDE DEF a, exact
    <3>1. QED
      BY <2>5, <2>6, <2>7
<1>3. QED
  BY <1>1, <1>2

(* The other gains are one of three numbers each.                          *)
LEMMA GainsAreNat ==
  ASSUME NEW f
  PROVE  /\ Enrich!AbuseGain(f) \in Nat /\ Enrich!ShodanGain(f) \in Nat
         /\ Enrich!OtxGain(f) \in Nat /\ Enrich!UrlhausGain(f) \in Nat
<1>1. Enrich!AbuseGain(f) \in {0, 15, 30}
  BY DEF Enrich!AbuseGain, Enrich!Grade
<1>2. Enrich!ShodanGain(f) \in {0, 10, 25}
  BY DEF Enrich!ShodanGain, Enrich!Grade
<1>3. Enrich!OtxGain(f) \in {0, 10, 25}
  BY DEF Enrich!OtxGain, Enrich!Grade
<1>4. Enrich!UrlhausGain(f) \in {0, 60, 80}
  BY DEF Enrich!UrlhausGain
<1>5. QED
  BY <1>1, <1>2, <1>3, <1>4

(* Saturating in between changes nothing.                                  *)
LEMMA SaturatedTwice ==
  /\ \A x \in Nat : Enrich!Saturated(x) \in Nat /\ Enrich!Saturated(x) <= MaxRisk
  /\ \A x \in Nat : x <= MaxRisk => Enrich!Saturated(x) = x
  /\ \A x, n \in Nat : Enrich!Saturated(Enrich!Saturated(x) + n) = Enrich!Saturated(x + n)
<1>1. \A x \in Nat : Enrich!Saturated(x) = IF x <= MaxRisk THEN x ELSE MaxRisk
  BY DEF Enrich!Saturated, Enrich!Least
<1>2. MaxRisk \in Nat
  BY EnrichConstants
<1>3. \A x \in Nat : Enrich!Saturated(x) \in Nat /\ Enrich!Saturated(x) <= MaxRisk
  BY <1>1, <1>2
<1>4. ASSUME NEW x \in Nat, NEW n \in Nat
      PROVE  Enrich!Saturated(Enrich!Saturated(x) + n) = Enrich!Saturated(x + n)
  <2>1. Enrich!Saturated(x) + n \in Nat /\ x + n \in Nat
    BY <1>3
  <2>2. QED
    BY <1>1, <1>2, <2>1
<1>5. QED
  BY <1>1, <1>3, <1>4

(* What GreyNoise leaves of a risk, and the risk of the addresses' reports *)
(* as a sum: the form the property gives it.                               *)
Noise == report["greynoise"]
Raised(r) ==
  Enrich!Saturated(r + Enrich!AbuseGain(report["abuseipdb"]) + Enrich!ShodanGain(report["shodan"])
                     + Enrich!OtxGain(report["otx"])
                     + (IF Noise # None /\ Noise.class = "malicious" THEN 25 ELSE 0))
Lowered(r) ==
  IF Noise # None /\ Noise.class = "benign" THEN Enrich!Max({0, Raised(r) - 5}) ELSE Raised(r)

(* A difference cut off at 0.                                              *)
LEMMA MaxOfTwo == \A x \in Int : Enrich!Max({0, x}) = IF x > 0 THEN x ELSE 0
<1>1. ASSUME NEW x \in Int
      PROVE  Enrich!Max({0, x}) = IF x > 0 THEN x ELSE 0
  <2>1. \A m \in {0, x} : (\A y \in {0, x} : m >= y) <=> m = IF x > 0 THEN x ELSE 0
    OBVIOUS
  <2>2. (IF x > 0 THEN x ELSE 0) \in {0, x}
    OBVIOUS
  <2>3. Enrich!Max({0, x}) = CHOOSE m \in {0, x} : \A y \in {0, x} : m >= y
    BY DEF Enrich!Max
  <2>4. QED
    BY <2>1, <2>2, <2>3
<1>2. QED
  BY <1>1

(* What the addresses' services make of a risk is a risk.                  *)
LEMMA RisksAreNat ==
  ASSUME NEW r \in Nat
  PROVE  Raised(r) \in Nat /\ Raised(r) <= MaxRisk /\ Lowered(r) \in Nat /\ Lowered(r) <= MaxRisk
<1> DEFINE x == r + Enrich!AbuseGain(report["abuseipdb"]) + Enrich!ShodanGain(report["shodan"])
                  + Enrich!OtxGain(report["otx"])
                  + (IF Noise # None /\ Noise.class = "malicious" THEN 25 ELSE 0)
<1>1. x \in Nat
  BY GainsAreNat
<1>2. Raised(r) \in Nat /\ Raised(r) <= MaxRisk
  <2>1. Raised(r) = Enrich!Saturated(x)
    BY DEF Raised
  <2> HIDE DEF x
  <2>2. QED
    BY <1>1, <2>1, SaturatedTwice
<1>3. Raised(r) - 5 \in Int
  BY <1>2
<1>4. Enrich!Max({0, Raised(r) - 5}) \in Nat /\ Enrich!Max({0, Raised(r) - 5}) <= MaxRisk
  BY <1>2, <1>3, MaxOfTwo, EnrichConstants
<1>5. QED
  BY <1>2, <1>4 DEF Lowered

(* Weighing the reports one after the other adds them up.                  *)
LEMMA AddressRiskIsSum ==
  ASSUME NEW r \in Nat, NEW a
  PROVE  Enrich!AddressRisk(r, report, a) = Enrich!Saturated(Lowered(r) + Enrich!IocGain(a))
<1> DEFINE x == Enrich!AbuseGain(report["abuseipdb"])
           y == Enrich!ShodanGain(report["shodan"])
           z == Enrich!OtxGain(report["otx"])
           first == Enrich!Saturated(Enrich!Saturated(r + x) + y)
           third == Enrich!Saturated(first + z)
           fourth == IF Noise = None THEN third
                     ELSE IF Noise.class = "malicious" THEN Enrich!Saturated(third + 25)
                     ELSE IF Noise.class = "benign" THEN third - Enrich!Least(5, third) ELSE third
           more == IF Noise # None /\ Noise.class = "malicious" THEN 25 ELSE 0
<1>1. x \in Nat /\ y \in Nat /\ z \in Nat /\ more \in Nat
  BY GainsAreNat
<1>2. Enrich!AddressRisk(r, report, a) = Enrich!Saturated(fourth + Enrich!IocGain(a))
  BY DEF Enrich!AddressRisk, Noise
<1>3. Raised(r) = Enrich!Saturated(r + x + y + z + more)
  BY DEF Raised
<1>4. r + x \in Nat /\ r + x + y \in Nat /\ r + x + y + z \in Nat
  BY <1>1
<1> HIDE DEF x, y, z, more
<1>5. first = Enrich!Saturated(r + x + y)
  BY <1>1, <1>4, SaturatedTwice
<1>6. third = Enrich!Saturated(r + x + y + z)
  <2> HIDE DEF first
  <2>1. QED
    BY <1>1, <1>4, <1>5, SaturatedTwice
<1> HIDE DEF first, third
<1>7. fourth = Lowered(r)
  <2>1. CASE Noise # None /\ Noise.class = "malicious"
    <3>1. more = 25 /\ fourth = Enrich!Saturated(third + 25) /\ Lowered(r) = Raised(r)
      BY <2>1 DEF more, Lowered
    <3>2. Enrich!Saturated(third + 25) = Enrich!Saturated(r + x + y + z + 25)
      BY <1>4, <1>6, SaturatedTwice
    <3>3. QED
      BY <1>3, <3>1, <3>2
  <2>2. CASE ~(Noise # None /\ Noise.class = "malicious")
    <3>1. r + x + y + z + more = r + x + y + z
      BY <1>4, <2>2 DEF more
    <3>2. Raised(r) = third
      BY <1>3, <1>6, <3>1
    <3>3. CASE Noise # None /\ Noise.class = "benign"
      <4>1. fourth = third - Enrich!Least(5, third) /\ Lowered(r) = Enrich!Max({0, Raised(r) - 5})
        BY <2>2, <3>3 DEF Lowered
      <4>2. third \in Nat /\ third - 5 \in Int
        BY <3>2, RisksAreNat
      <4>3. third - Enrich!Least(5, third) = IF third - 5 > 0 THEN third - 5 ELSE 0
        BY <4>2 DEF Enrich!Least
      <4>4. QED
        BY <3>2, <4>1, <4>2, <4>3, MaxOfTwo
    <3>4. CASE ~(Noise # None /\ Noise.class = "benign")
      BY <2>2, <3>2, <3>4 DEF Lowered
    <3>5. QED
      BY <3>3, <3>4
  <2>3. QED
    BY <2>1, <2>2
<1>8. QED
  BY <1>2, <1>7

(* The services about addresses are asked about this event.                *)
Net == event.kind = "network" /\ event.ip # None

(* What the addresses' reports and the local databases make of the event.  *)
FirstRisk == IF Net THEN Enrich!AddressRisk(event.risk, report, event.ip) ELSE event.risk
FirstTags ==
  IF Net
    THEN Enrich!AbuseTags(report["abuseipdb"]) \cup Enrich!ShodanTags(report["shodan"])
           \cup Enrich!OtxTags(report["otx"]) \cup Enrich!GreyNoiseTags(report["greynoise"])
           \cup Enrich!GeoTags(report["geoip"]) \cup Enrich!IocTags(event.ip)
    ELSE {}

(* What VirusTotal's report makes of that.                                 *)
SecondRisks == {Enrich!Saturated(FirstRisk + n) : n \in Enrich!VirusTotalGain(report["virustotal"])}
SecondTags == FirstTags \cup Enrich!VirusTotalTags(report["virustotal"])

Sources == Enrich!Services \cup {"geoip"}

ReportTyped ==
  /\ DOMAIN report = Sources /\ report = [s \in Sources |-> report[s]]
  /\ report["virustotal"] \in Facts["virustotal"] \cup {None}

(* Only the services of the stage are asked; the others have their say     *)
(* already or say nothing yet.                                             *)
AskedInStage ==
  /\ step \in {"addresses", "report", "verdict"} \/ asked = {}
  /\ step = "addresses" => asked \subseteq Enrich!AddressServices
  /\ step = "report" => asked \subseteq {"virustotal"}
  /\ step = "verdict" => asked \subseteq {"urlhaus"}
  /\ step \in {"addresses", "hash"} => report["virustotal"] = None
  /\ step \in {"addresses", "hash", "report", "url"} => report["urlhaus"] = None
  /\ step = "addresses" => Net /\ report["geoip"] = {}
  /\ ~Net /\ step # "idle" =>
       /\ \A s \in Enrich!AddressServices : report[s] = None
       /\ report["geoip"] = {}

(* What the stages so far made of the event.                               *)
SoFar ==
  /\ step = "addresses" => risk = event.risk /\ tags = {}
  /\ step \in {"hash", "report"} => risk = FirstRisk /\ tags = FirstTags
  /\ step \in {"url", "verdict"} => risk \in SecondRisks /\ tags = SecondTags
  /\ step = "done" =>
       /\ \E x \in SecondRisks : risk = Enrich!Saturated(x + Enrich!UrlhausGain(report["urlhaus"]))
       /\ tags = SecondTags \cup Enrich!UrlhausTags(report["urlhaus"])

EnrichInv ==
  /\ event \in Enriched /\ step \in {"idle", "addresses", "hash", "report", "url", "verdict", "done"}
  /\ ReportTyped /\ AskedInStage /\ SoFar

(* After each stage the risk is within its bounds.                         *)
LEMMA StageRisksAreNat ==
  ASSUME EnrichInv
  PROVE  /\ FirstRisk \in Nat /\ FirstRisk <= MaxRisk
         /\ \A x \in SecondRisks : x \in Nat /\ x <= MaxRisk
<1>1. event.risk \in Nat /\ event.risk <= MaxRisk
  BY EnrichConstants DEF EnrichInv
<1>2. FirstRisk \in Nat /\ FirstRisk <= MaxRisk
  <2>1. CASE Net
    <3> DEFINE y == Lowered(event.risk) + Enrich!IocGain(event.ip)
    <3>1. y \in Nat
      BY <1>1, RisksAreNat, IocGainIsNat
    <3>2. FirstRisk = Enrich!Saturated(y)
      BY <1>1, <2>1, AddressRiskIsSum DEF FirstRisk
    <3> HIDE DEF y
    <3>3. QED
      BY <3>1, <3>2, SaturatedTwice
  <2>2. CASE ~Net
    BY <1>1, <2>2 DEF FirstRisk
  <2>3. QED
    BY <2>1, <2>2
<1>3. ASSUME NEW n \in Enrich!VirusTotalGain(report["virustotal"])
      PROVE  Enrich!Saturated(FirstRisk + n) \in Nat /\ Enrich!Saturated(FirstRisk + n) <= MaxRisk
  <2>1. n \in Nat
    BY VirusTotalGains DEF EnrichInv, ReportTyped
  <2>2. FirstRisk + n \in Nat
    BY <1>2, <2>1
  <2>3. QED
    BY <2>2, SaturatedTwice
<1>4. QED
  BY <1>2, <1>3 DEF SecondRisks

(* The event in hand and the reports that count so far stay.               *)
LEMMA SameStages ==
  ASSUME UNCHANGED event, \A s \in {"abuseipdb", "shodan", "otx", "greynoise", "geoip"} : report'[s] = report[s]
  PROVE  /\ Net' = Net /\ FirstRisk' = FirstRisk /\ FirstTags' = FirstTags
         /\ report'["virustotal"] = report["virustotal"] =>
              SecondRisks' = SecondRisks /\ SecondTags' = SecondTags
<1>1. Net' = Net /\ event' = event
  BY DEF Net
<1>2. Enrich!AddressRisk(event.risk, report', event.ip) = Enrich!AddressRisk(event.risk, report, event.ip)
  BY DEF Enrich!AddressRisk
<1>3. FirstRisk' = FirstRisk
  BY <1>1, <1>2 DEF FirstRisk
<1>4. FirstTags' = FirstTags
  BY <1>1 DEF FirstTags
<1>5. QED
  BY <1>1, <1>3, <1>4 DEF SecondRisks, SecondTags

(* The next event has its own risk and no report.                          *)
LEMMA TakeKeeps ==
  ASSUME EnrichInv, NEW e \in Enriched, Enrich!Take(e)
  PROVE  EnrichInv'
<1>1. /\ event' = e /\ risk' = e.risk /\ tags' = {} /\ report' = Enrich!NoReports
      /\ IF e.kind = "network" /\ e.ip # None
         THEN step' = "addresses" /\ asked' = keyed \cap Enrich!AddressServices
         ELSE step' = "hash" /\ asked' = {}
  BY DEF Enrich!Take
<1>2. Net' <=> e.kind = "network" /\ e.ip # None
  BY <1>1 DEF Net
<1>3. /\ DOMAIN report' = Sources /\ report' = [s \in Sources |-> report'[s]]
      /\ \A s \in Enrich!Services : report'[s] = None
      /\ report'["geoip"] = {}
  BY <1>1 DEF Enrich!NoReports, Sources, Enrich!Services, Enrich!AddressServices
<1>4. "virustotal" \in Enrich!Services /\ "urlhaus" \in Enrich!Services
      /\ Enrich!AddressServices \subseteq Enrich!Services
  BY DEF Enrich!Services
<1>5. ReportTyped'
  BY <1>3, <1>4 DEF ReportTyped
<1>6. AskedInStage'
  BY <1>1, <1>2, <1>3, <1>4 DEF AskedInStage
<1>7. SoFar'
  <2>1. CASE Net'
    BY <1>1, <1>2, <2>1 DEF SoFar
  <2>2. CASE ~Net'
    BY <1>1, <1>2, <2>2 DEF SoFar, FirstRisk, FirstTags
  <2>3. QED
    BY <2>1, <2>2
<1>8. QED
  BY <1>1, <1>5, <1>6, <1>7 DEF EnrichInv

(* A reply changes its own service's report and no other.                  *)
LEMMA AnswerKeeps ==
  ASSUME EnrichInv, NEW s \in Enrich!Services, Enrich!Answer(s)
  PROVE  EnrichInv'
<1>1. /\ s \in asked /\ asked' = asked \ {s} /\ UNCHANGED <<step, event, risk, tags>>
      /\ \/ \E r \in Enrich!Replies(s) : report' = [report EXCEPT ![s] = Enrich!Report(s, r)]
         \/ UNCHANGED report
  BY DEF Enrich!Answer
<1>2. /\ DOMAIN report = Sources /\ report = [t \in Sources |-> report[t]]
      /\ report["virustotal"] \in Facts["virustotal"] \cup {None}
      /\ step \in {"addresses", "report", "verdict"} /\ event' \in Enriched
      /\ s \in Sources
  BY <1>1 DEF EnrichInv, ReportTyped, AskedInStage, Sources
<1>3. /\ DOMAIN report' = Sources /\ report' = [t \in Sources |-> report'[t]]
      /\ \A t \in Sources : t # s => report'[t] = report[t]
  BY <1>1, <1>2
<1>4. report'["virustotal"] \in Facts["virustotal"] \cup {None}
  <2>1. CASE UNCHANGED report
    BY <1>2, <2>1
  <2>2. CASE s # "virustotal"
    BY <1>2, <1>3, <2>2 DEF Sources, Enrich!Services
  <2>3. ASSUME s = "virustotal", NEW r \in Enrich!Replies(s),
               report' = [report EXCEPT ![s] = Enrich!Report(s, r)]
        PROVE  report'["virustotal"] \in Facts["virustotal"] \cup {None}
    <3>1. report'["virustotal"] = Enrich!VirusTotalReport(r)
      BY <1>2, <2>3 DEF Enrich!Report
    <3>2. r.body \in Facts["virustotal"] \cup {None}
      BY <2>3 DEF Enrich!Replies
    <3>3. QED
      BY <3>1, <3>2 DEF Enrich!VirusTotalReport
  <2>4. QED
    BY <1>1, <2>1, <2>2, <2>3
<1>5. ReportTyped'
  BY <1>3, <1>4 DEF ReportTyped
<1>6. /\ {"abuseipdb", "shodan", "otx", "greynoise", "geoip", "virustotal", "urlhaus"} \subseteq Sources
      /\ Enrich!AddressServices = {"abuseipdb", "shodan", "otx", "greynoise"}
  BY DEF Sources, Enrich!Services, Enrich!AddressServices
<1>7. Net' = Net
  BY <1>1 DEF Net
<1>8. CASE step = "addresses"
  <2>1. s \in Enrich!AddressServices /\ Net
    BY <1>1, <1>8 DEF EnrichInv, AskedInStage
  <2>2. /\ report'["virustotal"] = report["virustotal"] /\ report'["urlhaus"] = report["urlhaus"]
        /\ report'["geoip"] = report["geoip"]
    BY <1>3, <1>6, <2>1
  <2>3. AskedInStage'
    BY <1>1, <1>7, <1>8, <2>1, <2>2 DEF EnrichInv, AskedInStage
  <2>4. SoFar'
    BY <1>1, <1>8 DEF EnrichInv, SoFar
  <2>5. QED
    BY <1>1, <1>2, <1>5, <2>3, <2>4 DEF EnrichInv
<1>9. CASE step \in {"report", "verdict"}
  <2>1. s \in {"virustotal", "urlhaus"} /\ (step = "verdict" => s = "urlhaus")
                                        /\ (step = "report" => s = "virustotal")
    BY <1>1, <1>9 DEF EnrichInv, AskedInStage
  <2>2. \A t \in {"abuseipdb", "shodan", "otx", "greynoise", "geoip"} : report'[t] = report[t]
    BY <1>3, <1>6, <2>1
  <2>3. /\ step = "verdict" => report'["virustotal"] = report["virustotal"]
        /\ step = "report" => report'["urlhaus"] = report["urlhaus"]
    BY <1>3, <1>6, <2>1
  <2>4. AskedInStage'
    BY <1>1, <1>6, <1>7, <1>9, <2>2, <2>3 DEF EnrichInv, AskedInStage
  <2>5. SoFar'
    BY <1>1, <1>9, <2>2, <2>3, SameStages DEF EnrichInv, SoFar
  <2>6. QED
    BY <1>1, <1>2, <1>5, <2>4, <2>5 DEF EnrichInv
<1>10. QED
  BY <1>2, <1>8, <1>9

(* The addresses' reports are weighed one after the other.                 *)
LEMMA JoinedKeeps ==
  ASSUME EnrichInv, Enrich!Joined
  PROVE  EnrichInv'
<1>1. PICK dbs \in SUBSET GeoDbs : report' = [report EXCEPT !["geoip"] = dbs]
  BY DEF Enrich!Joined
<1>2. /\ step = "addresses" /\ asked = {} /\ step' = "hash" /\ UNCHANGED <<keyed, event, asked>>
      /\ risk' = Enrich!AddressRisk(risk, report, event.ip)
      /\ tags' = Enrich!AbuseTags(report["abuseipdb"]) \cup Enrich!ShodanTags(report["shodan"])
                   \cup Enrich!OtxTags(report["otx"]) \cup Enrich!GreyNoiseTags(report["greynoise"])
                   \cup Enrich!GeoTags(report'["geoip"]) \cup Enrich!IocTags(event.ip)
  BY DEF Enrich!Joined
<1>3. /\ DOMAIN report = Sources /\ report = [t \in Sources |-> report[t]]
      /\ "geoip" \in Sources /\ risk = event.risk /\ Net
      /\ report["virustotal"] = None /\ report["urlhaus"] = None
  BY <1>2 DEF EnrichInv, ReportTyped, AskedInStage, SoFar, Sources
<1>4. /\ {"abuseipdb", "shodan", "otx", "greynoise", "virustotal", "urlhaus"} \subseteq Sources
      /\ DOMAIN report' = Sources /\ report' = [t \in Sources |-> report'[t]]
      /\ \A t \in Sources : t # "geoip" => report'[t] = report[t]
  BY <1>1, <1>3 DEF Sources, Enrich!Services, Enrich!AddressServices
<1>5. \A t \in {"abuseipdb", "shodan", "otx", "greynoise", "virustotal", "urlhaus"} : report'[t] = report[t]
  BY <1>4
<1>6. Enrich!AddressRisk(event.risk, report', event.ip) = Enrich!AddressRisk(event.risk, report, event.ip)
  BY <1>5 DEF Enrich!AddressRisk
<1>7. Net' /\ event' = event
  BY <1>2, <1>3 DEF Net
<1>8. risk' = FirstRisk' /\ tags' = FirstTags'
  BY <1>2, <1>3, <1>5, <1>6, <1>7 DEF FirstRisk, FirstTags
<1>9. ReportTyped'
  BY <1>3, <1>4, <1>5 DEF EnrichInv, ReportTyped
<1>10. AskedInStage'
  BY <1>2, <1>3, <1>5, <1>7 DEF AskedInStage
<1>11. SoFar'
  BY <1>2, <1>8 DEF SoFar
<1>12. QED
  BY <1>2, <1>9, <1>10, <1>11 DEF EnrichInv

(* VirusTotal is asked, or has no say.                                     *)
LEMMA AskVirusTotalKeeps ==
  ASSUME EnrichInv, Enrich!AskVirusTotal
  PROVE  EnrichInv'
<1>1. /\ step = "hash" /\ UNCHANGED <<event, report, risk, tags>>
      /\ \/ step' = "report" /\ asked' = {"virustotal"}
         \/ step' = "url" /\ asked' = asked
  BY DEF Enrich!AskVirusTotal
<1>2. /\ asked = {} /\ report["virustotal"] = None /\ report["urlhaus"] = None
      /\ risk = FirstRisk /\ tags = FirstTags
  BY <1>1 DEF EnrichInv, AskedInStage, SoFar
<1>3. FirstRisk' = FirstRisk /\ FirstTags' = FirstTags /\ SecondRisks' = SecondRisks /\ SecondTags' = SecondTags
      /\ Net' = Net
  BY <1>1, SameStages
<1>4. risk \in SecondRisks /\ tags = SecondTags
  <2>1. FirstRisk \in Nat /\ FirstRisk <= MaxRisk
    BY StageRisksAreNat
  <2>2. FirstRisk + 0 = FirstRisk
    BY <2>1
  <2>3. Enrich!VirusTotalGain(None) = {0} /\ Enrich!VirusTotalTags(None) = {}
    BY DEF Enrich!VirusTotalGain, Enrich!VirusTotalTags
  <2>4. FirstRisk = Enrich!Saturated(FirstRisk + 0)
    BY <2>1, <2>2, SaturatedTwice
  <2>5. QED
    BY <1>2, <2>3, <2>4 DEF SecondRisks, SecondTags
<1>5. ReportTyped' /\ AskedInStage'
  BY <1>1, <1>2, <1>3 DEF EnrichInv, ReportTyped, AskedInStage
<1>6. SoFar'
  BY <1>1, <1>2, <1>3, <1>4 DEF SoFar
<1>7. QED
  BY <1>1, <1>5, <1>6 DEF EnrichInv

(* VirusTotal's report is weighed.                                         *)
LEMMA VirusTotalAnsweredKeeps ==
  ASSUME EnrichInv, Enrich!VirusTotalAnswered
  PROVE  EnrichInv'
<1>1. /\ step = "report" /\ asked = {} /\ step' = "url" /\ UNCHANGED <<event, asked, report>>
      /\ \E n \in Enrich!VirusTotalGain(report["virustotal"]) : risk' = Enrich!Saturated(risk + n)
      /\ tags' = tags \cup Enrich!VirusTotalTags(report["virustotal"])
  BY DEF Enrich!VirusTotalAnswered
<1>2. risk = FirstRisk /\ tags = FirstTags
  BY <1>1 DEF EnrichInv, SoFar
<1>3. SecondRisks' = SecondRisks /\ SecondTags' = SecondTags /\ Net' = Net
  BY <1>1, SameStages
<1>4. risk' \in SecondRisks /\ tags' = SecondTags
  BY <1>1, <1>2 DEF SecondRisks, SecondTags
<1>5. ReportTyped' /\ AskedInStage'
  BY <1>1, <1>3 DEF EnrichInv, ReportTyped, AskedInStage
<1>6. SoFar'
  BY <1>1, <1>3, <1>4 DEF SoFar
<1>7. QED
  BY <1>1, <1>5, <1>6 DEF EnrichInv

(* URLhaus is asked, or has no say.                                        *)
LEMMA AskUrlhausKeeps ==
  ASSUME EnrichInv, Enrich!AskUrlhaus
  PROVE  EnrichInv'
<1>1. /\ step = "url" /\ UNCHANGED <<event, report, risk, tags>>
      /\ \/ step' = "verdict" /\ asked' = {"urlhaus"}
         \/ step' = "done" /\ asked' = asked
  BY DEF Enrich!AskUrlhaus
<1>2. /\ asked = {} /\ report["urlhaus"] = None
      /\ risk \in SecondRisks /\ tags = SecondTags
  BY <1>1 DEF EnrichInv, AskedInStage, SoFar
<1>3. SecondRisks' = SecondRisks /\ SecondTags' = SecondTags /\ Net' = Net
  BY <1>1, SameStages
<1>4. risk = Enrich!Saturated(risk + Enrich!UrlhausGain(None)) /\ Enrich!UrlhausTags(None) = {}
  <2>1. risk \in Nat /\ risk <= MaxRisk
    BY <1>2, StageRisksAreNat
  <2>2. Enrich!UrlhausGain(None) = 0 /\ Enrich!UrlhausTags(None) = {}
    BY DEF Enrich!UrlhausGain, Enrich!UrlhausTags
  <2>3. risk + 0 = risk
    BY <2>1
  <2>4. QED
    BY <2>1, <2>2, <2>3, SaturatedTwice
<1>5. ReportTyped' /\ AskedInStage'
  BY <1>1, <1>2, <1>3 DEF EnrichInv, ReportTyped, AskedInStage
<1>6. SoFar'
  BY <1>1, <1>2, <1>3, <1>4 DEF SoFar
<1>7. QED
  BY <1>1, <1>5, <1>6 DEF EnrichInv

(* URLhaus's report is weighed.                                            *)
LEMMA UrlhausAnsweredKeeps ==
  ASSUME EnrichInv, Enrich!UrlhausAnswered
  PROVE  EnrichInv'
<1>1. /\ step = "verdict" /\ asked = {} /\ step' = "done" /\ UNCHANGED <<event, asked, report>>
      /\ risk' = Enrich!Saturated(risk + Enrich!UrlhausGain(report["urlhaus"]))
      /\ tags' = tags \cup Enrich!UrlhausTags(report["urlhaus"])
  BY DEF Enrich!UrlhausAnswered
<1>2. risk \in SecondRisks /\ tags = SecondTags
  BY <1>1 DEF EnrichInv, SoFar
<1>3. SecondRisks' = SecondRisks /\ SecondTags' = SecondTags /\ Net' = Net
  BY <1>1, SameStages
<1>4. ReportTyped' /\ AskedInStage'
  BY <1>1, <1>3 DEF EnrichInv, ReportTyped, AskedInStage
<1>5. SoFar'
  BY <1>1, <1>2, <1>3 DEF SoFar
<1>6. QED
  BY <1>1, <1>4, <1>5 DEF EnrichInv

(* Every step of enrich().                                                 *)
LEMMA EnrichSteps ==
  ASSUME EnrichInv, [Enrich!Next]_(Enrich!vars)
  PROVE  EnrichInv'
<1>1. CASE Enrich!Done
  <2>1. step = "done" /\ step' = "idle" /\ UNCHANGED <<event, asked>> /\ report' = Enrich!NoReports
    BY <1>1 DEF Enrich!Done
  <2>2. ReportTyped'
    BY <2>1 DEF ReportTyped, Enrich!NoReports, Sources, Enrich!Services
  <2>3. AskedInStage' /\ SoFar'
    BY <2>1 DEF EnrichInv, AskedInStage, SoFar
  <2>4. QED
    BY <2>1, <2>2, <2>3 DEF EnrichInv
<1>2. CASE UNCHANGED Enrich!vars
  <2>1. UNCHANGED <<step, event, asked, report, risk, tags>>
    BY <1>2 DEF Enrich!vars
  <2>2. SecondRisks' = SecondRisks /\ SecondTags' = SecondTags /\ Net' = Net
        /\ FirstRisk' = FirstRisk /\ FirstTags' = FirstTags
    BY <2>1, SameStages
  <2>3. QED
    BY <2>1, <2>2 DEF EnrichInv, ReportTyped, AskedInStage, SoFar
<1>3. QED
  BY <1>1, <1>2, TakeKeeps, AnswerKeeps, JoinedKeeps, AskVirusTotalKeeps, VirusTotalAnsweredKeeps,
     AskUrlhausKeeps, UrlhausAnsweredKeeps DEF Enrich!Next

(* Without a report from it a service adds nothing.                        *)
LEMMA FirstRiskIsSum ==
  ASSUME EnrichInv, step = "done"
  PROVE  FirstRisk = Enrich!Saturated(Lowered(event.risk) + (IF Net THEN Enrich!IocGain(event.ip) ELSE 0))
<1>1. event.risk \in Nat /\ event.risk <= MaxRisk
  BY EnrichConstants DEF EnrichInv
<1>2. CASE Net
  BY <1>1, <1>2, AddressRiskIsSum DEF FirstRisk
<1>3. CASE ~Net
  <2>1. /\ report["abuseipdb"] = None /\ report["shodan"] = None
        /\ report["otx"] = None /\ report["greynoise"] = None
    BY <1>3 DEF EnrichInv, AskedInStage, Enrich!AddressServices
  <2>2. /\ Enrich!AbuseGain(report["abuseipdb"]) = 0 /\ Enrich!ShodanGain(report["shodan"]) = 0
        /\ Enrich!OtxGain(report["otx"]) = 0
    BY <2>1 DEF Enrich!AbuseGain, Enrich!ShodanGain, Enrich!OtxGain
  <2>3. Raised(event.risk) = Enrich!Saturated(event.risk + 0 + 0 + 0 + 0)
    BY <2>1, <2>2 DEF Raised, Noise
  <2>4. event.risk + 0 + 0 + 0 + 0 = event.risk /\ event.risk + 0 = event.risk
    BY <1>1
  <2>5. Lowered(event.risk) = event.risk
    BY <1>1, <2>1, <2>3, <2>4, SaturatedTwice DEF Lowered, Noise
  <2>6. QED
    BY <1>1, <1>3, <2>4, <2>5, SaturatedTwice DEF FirstRisk
<1>4. QED
  BY <1>2, <1>3

(* Enrichment's invariant.                                                 *)
LEMMA EnrichAlways == AllSpec => []EnrichInv
<1>1. AllInit => EnrichInv
  <2>1. SUFFICES ASSUME Enrich!Init PROVE EnrichInv
    BY DEF AllInit
  <2>2. /\ step = "idle" /\ event \in Enriched /\ asked = {} /\ report = Enrich!NoReports
    BY <2>1 DEF Enrich!Init
  <2>3. ReportTyped
    BY <2>2 DEF ReportTyped, Enrich!NoReports, Sources, Enrich!Services
  <2>4. AskedInStage /\ SoFar
    BY <2>2 DEF AskedInStage, SoFar
  <2>5. QED
    BY <2>2, <2>3, <2>4 DEF EnrichInv
<1>2. EnrichInv /\ [AllNext]_allVars => EnrichInv'
  BY PartSteps, EnrichSteps
<1>3. QED
  BY <1>1, <1>2, PTL DEF AllSpec

(* enrich(): every service counts for what it said and for nothing else,   *)
(* whatever the others answer and in whatever order.                       *)
THEOREM EnrichmentCorrect == AllSpec => []EachCountsAlone
<1>1. EnrichInv => EachCountsAlone
  <2>1. SUFFICES ASSUME EnrichInv, step = "done" PROVE EachCountsAlone
    BY DEF EachCountsAlone, Enrich!EachCountsAlone
  <2> DEFINE u == Enrich!UrlhausGain(report["urlhaus"])
             local == IF Net THEN Enrich!IocGain(event.ip) ELSE 0
             low == Lowered(event.risk)
  <2>2. PICK n \in Enrich!VirusTotalGain(report["virustotal"]) :
          risk = Enrich!Saturated(Enrich!Saturated(FirstRisk + n) + u)
    BY <2>1 DEF EnrichInv, SoFar, SecondRisks
  <2>3. n \in Nat /\ u \in Nat /\ local \in Nat /\ low \in Nat
    <3>1. n \in Nat
      BY <2>1, VirusTotalGains DEF EnrichInv, ReportTyped
    <3>2. event.risk \in Nat
      BY <2>1, EnrichConstants DEF EnrichInv
    <3>3. QED
      BY <3>1, <3>2, GainsAreNat, IocGainIsNat, RisksAreNat
  <2>4. FirstRisk = Enrich!Saturated(low + local)
    BY <2>1, FirstRiskIsSum
  <2> HIDE DEF u, local, low
  <2>5. low + local \in Nat /\ low + local + n \in Nat
    BY <2>3
  <2>6. risk = Enrich!Saturated(low + local + n + u)
    BY <2>2, <2>3, <2>4, <2>5, SaturatedTwice
  <2>7. tags = SecondTags \cup Enrich!UrlhausTags(report["urlhaus"])
    BY <2>1 DEF EnrichInv, SoFar
  <2>8. ~Net => /\ FirstTags = {} /\ report["abuseipdb"] = None /\ report["shodan"] = None
                /\ report["otx"] = None /\ report["greynoise"] = None /\ report["geoip"] = {}
    BY <2>1 DEF EnrichInv, AskedInStage, Enrich!AddressServices, FirstTags
  <2>9. /\ Enrich!AbuseTags(None) = {} /\ Enrich!ShodanTags(None) = {} /\ Enrich!OtxTags(None) = {}
        /\ Enrich!GreyNoiseTags(None) = {} /\ Enrich!GeoTags({}) = {}
    BY DEF Enrich!AbuseTags, Enrich!ShodanTags, Enrich!OtxTags, Enrich!GreyNoiseTags, Enrich!GeoTags
  <2>10. tags = Enrich!AbuseTags(report["abuseipdb"]) \cup Enrich!ShodanTags(report["shodan"])
                  \cup Enrich!OtxTags(report["otx"]) \cup Enrich!GreyNoiseTags(report["greynoise"])
                  \cup Enrich!GeoTags(report["geoip"]) \cup (IF Net THEN Enrich!IocTags(event.ip) ELSE {})
                  \cup Enrich!VirusTotalTags(report["virustotal"]) \cup Enrich!UrlhausTags(report["urlhaus"])
    <3>1. CASE Net
      BY <2>7, <3>1 DEF SecondTags, FirstTags
    <3>2. CASE ~Net
      BY <2>7, <2>8, <2>9, <3>2 DEF SecondTags
    <3>3. QED
      BY <3>1, <3>2
  <2>11. risk \in {Enrich!Saturated(low + local + m + u) : m \in Enrich!VirusTotalGain(report["virustotal"])}
    BY <2>6
  <2>12. QED
    BY <2>10, <2>11 DEF EachCountsAlone, Enrich!EachCountsAlone, u, local, low, Lowered, Raised, Noise, Net
<1>2. QED
  BY <1>1, EnrichAlways, PTL

-----------------------------------------------------------------------------
(* The desktop application                                                 *)

Distinct(q) == \A i, j \in DOMAIN q : q[i].id = q[j].id => i = j

Replies == [events : Seq({Desk!Read(e) : e \in Rows}), total : Nat, more : BOOLEAN]

(* The first page holds no event twice and says that there is no more.     *)
FirstPage(r) == r \in Replies /\ Distinct(r.events) /\ r.more = FALSE

(* A page from the start of the store is a first page.                     *)
LEMMA FirstPages ==
  ASSUME StoreInv, NEW r \in Desk!query_events(PageSize, 0)
  PROVE  FirstPage(r)
<1> DEFINE q == Desk!PageQuery(PageSize, 0)
           M == Desk!Matching(q)
           n == Desk!Cardinality(M)
<1>1. PageSize \in Nat /\ Desk!IsFiniteSet(Rows)
  BY AnalysisAssumption DEF Desk!DesktopAssumption, Desk!StoreAssumption
<1>2. q.limit = PageSize /\ q.offset = 0
  BY DEF Desk!PageQuery, Desk!AnyQuery
<1>3. M \subseteq stored /\ M \subseteq Rows
  BY DEF Desk!Matching, StoreInv, StoreTyped
<1>4. n \in Nat
  <2>1. IsFiniteSet(Rows)
    BY <1>1 DEF Desk!IsFiniteSet, IsFiniteSet
  <2>2. IsFiniteSet(M)
    BY <1>3, <2>1, FS_Subset
  <2>3. n = Cardinality(M)
    BY DEF Desk!Cardinality, Cardinality
  <2> HIDE DEF M, n
  <2>4. QED
    BY <2>2, <2>3, FS_CardinalityType
<1>5. PICK c \in Desk!Cursors(q) : r = [events |-> c.events, total |-> c.total, more |-> c.total > PageSize + 0]
  BY DEF Desk!query_events
<1>6. PICK s \in Desk!Sortings(q) :
        LET page == SubSeq(s, q.offset + 1, Desk!Min({q.offset + q.limit, Len(s)}))
        IN  c = [events |-> [i \in DOMAIN page |-> Desk!Read(page[i])], total |-> Len(page)]
  BY DEF Desk!Cursors
<1>7. s \in Desk!SetToSeqs(M)
  BY DEF Desk!Sortings
<1>8. s \in [1..n -> M] /\ \A i, j \in 1..n : i # j => s[i] # s[j]
  BY <1>7 DEF Desk!SetToSeqs
<1> HIDE DEF q, M, n
<1>9. Len(s) = n
  BY <1>4, <1>8
<1> DEFINE m == IF PageSize <= n THEN PageSize ELSE n
<1>10. Desk!Min({0 + PageSize, n}) = m
  <2>1. m \in {0 + PageSize, n} /\ \A x \in {0 + PageSize, n} : (\A y \in {0 + PageSize, n} : x =< y) <=> x = m
    BY <1>1, <1>4
  <2>2. QED
    BY <2>1 DEF Desk!Min
<1> DEFINE page == SubSeq(s, 1, m)
           view == [i \in DOMAIN page |-> Desk!Read(page[i])]
<1>11. m \in Nat /\ m <= n /\ m <= PageSize
  BY <1>1, <1>4
<1>12. c = [events |-> view, total |-> Len(page)]
  <2>1. q.offset + 1 = 1 /\ q.offset + q.limit = 0 + PageSize
    BY <1>2
  <2>2. SubSeq(s, q.offset + 1, Desk!Min({q.offset + q.limit, Len(s)})) = page
    BY <1>9, <1>10, <2>1
  <2>3. QED
    BY <1>6, <2>2
<1> HIDE DEF m
<1>13. page \in Seq(M) /\ Len(page) = m /\ \A i \in 1..m : page[i] = s[i]
  <2>1. \A i \in 1..m : s[i] \in M
    BY <1>4, <1>8, <1>11
  <2>2. /\ page \in Seq(M) /\ Len(page) = IF 1 <= m THEN m - 1 + 1 ELSE 0
        /\ \A i \in 1..(m - 1 + 1) : page[i] = s[1 + i - 1]
    BY <1>11, <2>1, SubSeqProperties
  <2>3. m - 1 + 1 = m /\ \A i \in 1..m : 1 + i - 1 = i
    BY <1>11
  <2> HIDE DEF page
  <2>4. Len(page) = m
    BY <1>11, <2>2
  <2>5. QED
    BY <2>2, <2>3, <2>4
<1> HIDE DEF page
<1>14. DOMAIN page = 1..m
  BY <1>13, LenProperties
<1>15. \A i \in 1..m : page[i] \in M
  BY <1>13, ElementOfSeq
<1>16. r = [events |-> view, total |-> m, more |-> m > PageSize + 0]
  BY <1>5, <1>12, <1>13
<1>17. (m > PageSize + 0) = FALSE
  BY <1>1, <1>11
<1>18. view \in Seq({Desk!Read(e) : e \in Rows}) /\ DOMAIN view = 1..m
  <2>1. view \in [1..m -> {Desk!Read(e) : e \in Rows}]
    BY <1>3, <1>14, <1>15
  <2>2. QED
    BY <1>11, <2>1
<1>19. ASSUME NEW i \in 1..m, NEW j \in 1..m, view[i].id = view[j].id
       PROVE  i = j
  <2>1. view[i].id = page[i].id /\ view[j].id = page[j].id
    BY <1>14 DEF Desk!Read
  <2>2. page[i] = page[j]
    BY <1>3, <1>15, <1>19, <2>1 DEF StoreInv, Whole
  <2>3. s[i] = s[j] /\ i \in 1..n /\ j \in 1..n
    BY <1>4, <1>11, <1>13, <2>2
  <2>4. QED
    BY <1>8, <2>3
<1> HIDE DEF view
<1>20. QED
  BY <1>11, <1>16, <1>17, <1>18, <1>19 DEF FirstPage, Replies, Distinct

(* A call is a record; one that asks for the first page gets it.           *)
ACall(x) ==
  \E b, n, p :
    /\ b \in BOOLEAN /\ x = [reset |-> b, from |-> n, reply |-> p]
    /\ b => n = 0
    /\ n = 0 => p = None \/ FirstPage(p)

(* As long as no two calls overlapped and none failed, the list asks for   *)
(* the first page, and for no more once it has it.                         *)
Single ==
  /\ \A s, t \in Slots : call[s] # None /\ call[t] # None => s = t
  /\ \A s \in Slots : call[s] # None => call[s].from = 0 /\ (call[s].reset \/ items = <<>>)
  /\ hasMore => offset = 0 /\ (items = <<>> \/ \E s \in Slots : call[s] # None /\ call[s].reset)
  /\ Distinct(items)

ListInv ==
  /\ call = [s \in Slots |-> call[s]] /\ \A s \in Slots : call[s] # None => ACall(call[s])
  /\ ~tangled => Single

(* The calls that None could be mistaken for.                              *)
LEMMA CallIsSome ==
  ASSUME NEW b \in BOOLEAN, NEW p, p = None \/ FirstPage(p)
  PROVE  None # [reset |-> b, from |-> 0, reply |-> p]
<1>1. None \notin Desk!Call
  BY AnalysisAssumption DEF Desk!DesktopAssumption
<1>2. [reset |-> b, from |-> 0, reply |-> p] \in Desk!Call
  BY DEF Desk!Call, FirstPage, Replies
<1>3. QED
  BY <1>1, <1>2

(* A call starts; one beside another tangles the list.                     *)
LEMMA FetchKeeps ==
  ASSUME ListInv, NEW s \in Slots, NEW reset \in BOOLEAN, Desk!Fetch(s, reset),
         reset \/ hasMore
  PROVE  ListInv'
<1> DEFINE x == [reset |-> reset, from |-> IF reset THEN 0 ELSE offset, reply |-> None]
<1>1. /\ call[s] = None /\ call' = [call EXCEPT ![s] = x]
      /\ offset' = IF reset THEN 0 ELSE offset
      /\ hasMore' = (reset \/ hasMore)
      /\ tangled' = (tangled \/ \E t \in Slots : call[t] # None)
      /\ items' = items
  BY DEF Desk!Fetch
<1>2. /\ call' = [t \in Slots |-> call'[t]]
      /\ \A t \in Slots : call'[t] = IF t = s THEN x ELSE call[t]
  BY <1>1 DEF ListInv
<1>3. ACall(x)
  BY DEF ACall
<1>4. ASSUME ~tangled'
      PROVE  Single'
  <2>1. ~tangled /\ \A t \in Slots : call[t] = None
    BY <1>1, <1>4
  <2>2. Single
    BY <2>1 DEF ListInv
  <2>3. reset \/ (offset = 0 /\ items = <<>>)
    BY <2>1, <2>2 DEF Single
  <2>4. x.from = 0 /\ x.reset = reset /\ offset' = 0 /\ x # None
    BY <1>1, <2>3, CallIsSome
  <2> HIDE DEF x
  <2>5. \A t \in Slots : call'[t] # None => t = s
    BY <1>2, <2>1
  <2>6. \A t \in Slots : call'[t] # None => call'[t].from = 0 /\ (call'[t].reset \/ items' = <<>>)
    BY <1>1, <1>2, <2>3, <2>4, <2>5
  <2>7. hasMore' => offset' = 0 /\ (items' = <<>> \/ \E t \in Slots : call'[t] # None /\ call'[t].reset)
    BY <1>1, <1>2, <2>3, <2>4
  <2>8. Distinct(items)'
    BY <1>1, <2>2 DEF Single, Distinct
  <2>9. QED
    BY <2>5, <2>6, <2>7, <2>8 DEF Single
<1> HIDE DEF x
<1>5. QED
  BY <1>2, <1>3, <1>4 DEF ListInv

(* The store answers a call.                                               *)
LEMMA ServedKeeps ==
  ASSUME ListInv, StoreInv, NEW s \in Slots, Desk!Served(s)
  PROVE  ListInv'
<1>1. call[s] # None /\ call[s].reply = None /\ UNCHANGED <<items, hasMore, offset, tangled>>
  BY DEF Desk!Served
<1>2. PICK r \in Desk!query_events(PageSize, call[s].from) : call' = [call EXCEPT ![s].reply = r]
  BY DEF Desk!Served
<1>3. PICK b, n, p :
        /\ b \in BOOLEAN /\ call[s] = [reset |-> b, from |-> n, reply |-> p]
        /\ b => n = 0
        /\ n = 0 => p = None \/ FirstPage(p)
  BY <1>1 DEF ListInv, ACall
<1> DEFINE x == [reset |-> b, from |-> n, reply |-> r]
<1>4. /\ call' = [t \in Slots |-> call'[t]]
      /\ \A t \in Slots : call'[t] = IF t = s THEN x ELSE call[t]
  BY <1>2, <1>3 DEF ListInv
<1>5. n = 0 => FirstPage(r)
  BY <1>2, <1>3, FirstPages
<1>6. ACall(x)
  <2>1. \A y, d, m, q : /\ y = [reset |-> d, from |-> m, reply |-> q] /\ d \in BOOLEAN
                        /\ d => m = 0
                        /\ m = 0 => q = None \/ FirstPage(q)
                        => ACall(y)
    BY DEF ACall
  <2>2. QED
    BY <1>3, <1>5, <2>1
<1>7. x.from = call[s].from /\ x.reset = call[s].reset
  BY <1>3
<1>8. ASSUME ~tangled'
      PROVE  Single'
  <2>1. Single
    BY <1>1, <1>8 DEF ListInv
  <2>2. call[s].from = 0
    BY <1>1, <2>1 DEF Single
  <2>3. n = 0 /\ x # None
    BY <1>3, <1>5, <2>2, CallIsSome
  <2> HIDE DEF x
  <2>4. \A t \in Slots : call'[t] # None => call[t] # None
    BY <1>1, <1>4
  <2>5. \A t \in Slots : call'[t] # None => call'[t].from = call[t].from /\ call'[t].reset = call[t].reset
    BY <1>4, <1>7
  <2>6. \A t \in Slots : call[t] # None => call'[t] # None /\ call'[t].reset = call[t].reset
    BY <1>4, <1>7, <2>3
  <2>7. QED
    BY <1>1, <2>1, <2>4, <2>5, <2>6 DEF Single, Distinct
<1> HIDE DEF x
<1>9. QED
  BY <1>4, <1>6, <1>8 DEF ListInv

(* An answer replaces the list or goes to its end.                         *)
LEMMA ArrivedKeeps ==
  ASSUME ListInv, NEW s \in Slots, Desk!Arrived(s)
  PROVE  ListInv'
<1> DEFINE r == call[s].reply
<1>1. /\ call[s] # None /\ r # None /\ call' = [call EXCEPT ![s] = None]
      /\ items' = IF call[s].reset THEN r.events ELSE items \o r.events
      /\ hasMore' = r.more
      /\ tangled' = (tangled /\ ~(call[s].reset /\ Desk!Alone(s) /\ offset = 0))
  BY DEF Desk!Arrived
<1>2. /\ call' = [t \in Slots |-> call'[t]]
      /\ \A t \in Slots : call'[t] = IF t = s THEN None ELSE call[t]
  BY <1>1 DEF ListInv
<1>3. PICK b, n, p :
        /\ b \in BOOLEAN /\ call[s] = [reset |-> b, from |-> n, reply |-> p]
        /\ b => n = 0
        /\ n = 0 => p = None \/ FirstPage(p)
  BY <1>1 DEF ListInv, ACall
<1>4. r = p /\ call[s].reset = b /\ call[s].from = n
  BY <1>3
<1>5. ASSUME ~tangled'
      PROVE  Single'
  <2>1. \A t \in Slots : t # s => call[t] = None
    <3>1. CASE tangled
      BY <1>1, <1>5, <3>1 DEF Desk!Alone
    <3>2. CASE ~tangled
      BY <1>1, <3>2 DEF ListInv, Single
    <3>3. QED
      BY <3>1, <3>2
  <2>2. n = 0 /\ (b \/ items = <<>>)
    <3>1. CASE tangled
      BY <1>1, <1>3, <1>4, <1>5, <3>1
    <3>2. CASE ~tangled
      BY <1>1, <1>4, <3>2 DEF ListInv, Single
    <3>3. QED
      BY <3>1, <3>2
  <2>3. FirstPage(p)
    BY <1>1, <1>3, <1>4, <2>2
  <2>4. p.events \in Seq({Desk!Read(e) : e \in Rows}) /\ Distinct(p.events) /\ p.more = FALSE
    BY <2>3 DEF FirstPage, Replies
  <2>5. items' = p.events
    <3>1. <<>> \o p.events = p.events
      BY <2>4, ConcatEmptySeq
    <3>2. QED
      BY <1>1, <1>4, <2>2, <3>1
  <2>6. hasMore' = FALSE
    BY <1>1, <1>4, <2>4
  <2>7. \A t \in Slots : call'[t] = None
    BY <1>2, <2>1
  <2>8. Distinct(items)'
    BY <2>4, <2>5 DEF Distinct
  <2>9. QED
    BY <2>6, <2>7, <2>8 DEF Single
<1>6. QED
  BY <1>2, <1>5 DEF ListInv

(* Every step of the list.                                                 *)
LEMMA ListSteps ==
  ASSUME ListInv, StoreInv, [Desk!Next]_(Desk!vars)
  PROVE  ListInv'
<1>1. CASE UNCHANGED <<call, items, hasMore, offset, tangled>>
  BY <1>1 DEF ListInv, Single, Distinct
<1>2. CASE \E s \in Slots : Desk!LoadMore(s) \/ Desk!Refresh(s)
  BY <1>2, FetchKeeps DEF Desk!LoadMore, Desk!Refresh
<1>3. CASE \E s \in Slots : Desk!FetchFailed(s)
  <2>1. PICK s \in Slots : Desk!FetchFailed(s)
    BY <1>3
  <2>2. call' = [call EXCEPT ![s] = None] /\ tangled' = TRUE
    BY <2>1 DEF Desk!FetchFailed
  <2>3. QED
    BY <2>2 DEF ListInv
<1>4. CASE Desk!StoreNext /\ UNCHANGED Desk!listVars
  BY <1>1, <1>4 DEF Desk!listVars
<1>5. CASE Desk!AlertNext \/ UNCHANGED Desk!vars
  BY <1>1, <1>5 DEF Desk!AlertNext, Desk!RaiseAlert, Desk!CheckNewAlerts, Desk!ShowNotification,
                    Desk!CheckDone, Desk!vars, Desk!listVars
<1>6. QED
  BY <1>2, <1>3, <1>4, <1>5, ServedKeeps, ArrivedKeeps DEF Desk!Next, Desk!ListNext

(* As long as no two checks overlapped and no ids were forgotten, what a   *)
(* check still has to show was never shown.                                *)
AlertInv ==
  /\ raised \in Nat /\ check = [c \in Checks |-> check[c]]
  /\ \A c \in Checks : check[c] # None => check[c] \subseteq 1..raised
  /\ shown \in [Alerts -> Nat]
  /\ ~repeats =>
       /\ \A c, d \in Checks : check[c] # None /\ check[d] # None => c = d
       /\ \A c \in Checks : check[c] # None => check[c] \cap notified = {}
       /\ \A a \in Alerts : shown[a] <= 1 /\ (shown[a] # 0 => a \in notified)

(* The notifications' steps.                                               *)
LEMMA AlertStepsKeep ==
  ASSUME AlertInv, Desk!AlertNext
  PROVE  AlertInv'
<1>1. CASE Desk!RaiseAlert
  <2>1. raised' = raised + 1 /\ UNCHANGED <<check, notified, shown, repeats>>
    BY <1>1 DEF Desk!RaiseAlert
  <2>2. raised' \in Nat /\ 1..raised \subseteq 1..raised'
    BY <2>1 DEF AlertInv
  <2>3. QED
    BY <2>1, <2>2 DEF AlertInv
<1>2. ASSUME NEW c \in Checks, Desk!CheckNewAlerts(c)
      PROVE  AlertInv'
  <2> DEFINE new == Desk!Newest \ notified
  <2>1. /\ check' = [check EXCEPT ![c] = new] /\ check[c] = None
        /\ repeats' = (repeats \/ \E d \in Checks : check[d] # None)
        /\ UNCHANGED <<raised, notified, shown>>
    BY <1>2 DEF Desk!CheckNewAlerts
  <2>2. new \subseteq 1..raised /\ new \cap notified = {}
    BY DEF Desk!Newest
  <2> HIDE DEF new
  <2>3. /\ check' = [d \in Checks |-> check'[d]]
        /\ \A d \in Checks : check'[d] = IF d = c THEN new ELSE check[d]
    BY <2>1 DEF AlertInv
  <2>4. QED
    BY <2>1, <2>2, <2>3 DEF AlertInv
<1>3. ASSUME NEW c \in Checks, Desk!ShowNotification(c)
      PROVE  AlertInv'
  <2> DEFINE a == Desk!Max(check[c])
  <2>1. /\ check[c] # None /\ check[c] # {}
        /\ shown' = [shown EXCEPT ![a] = @ + 1] /\ notified' = notified \cup {a}
        /\ check' = [check EXCEPT ![c] = @ \ {a}]
        /\ UNCHANGED <<raised, repeats>>
    BY <1>3 DEF Desk!ShowNotification
  <2>2. a \in check[c]
    <3>1. raised \in Nat /\ check[c] \subseteq 1..raised
      BY <2>1 DEF AlertInv
    <3>2. \A x \in check[c] : x \in Nat /\ x <= raised
      BY <3>1
    <3>3. \A S : S # {} /\ (\A x \in S : x \in Nat /\ x <= raised) => Enrich!Max(S) \in S
      BY <3>1, GreatestOf
    <3>4. Desk!Max(check[c]) = Enrich!Max(check[c])
      BY DEF Desk!Max, Enrich!Max
    <3>5. QED
      BY <2>1, <3>2, <3>3, <3>4
  <2> HIDE DEF a
  <2>3. /\ check' = [d \in Checks |-> check'[d]]
        /\ \A d \in Checks : check'[d] = IF d = c THEN check[c] \ {a} ELSE check[d]
    BY <2>1 DEF AlertInv
  <2>4. /\ shown' \in [Alerts -> Nat]
        /\ \A b \in Alerts : shown'[b] = IF b = a THEN shown[b] + 1 ELSE shown[b]
    <3>1. shown \in [Alerts -> Nat] /\ shown' = [shown EXCEPT ![a] = shown[a] + 1]
      BY <2>1 DEF AlertInv
    <3>2. a \in Alerts => shown[a] + 1 \in Nat
      BY <3>1
    <3>3. QED
      BY <3>1, <3>2
  <2>5. \A d \in Checks : check'[d] # None => check'[d] \subseteq 1..raised'
    BY <2>1, <2>3 DEF AlertInv
  <2>6. ASSUME ~repeats'
        PROVE  /\ \A d, e \in Checks : check'[d] # None /\ check'[e] # None => d = e
               /\ \A d \in Checks : check'[d] # None => check'[d] \cap notified' = {}
               /\ \A b \in Alerts : shown'[b] <= 1 /\ (shown'[b] # 0 => b \in notified')
    <3>1. /\ \A d, e \in Checks : check[d] # None /\ check[e] # None => d = e
          /\ check[c] \cap notified = {}
          /\ \A b \in Alerts : shown[b] <= 1 /\ (shown[b] # 0 => b \in notified)
      BY <2>1, <2>6 DEF AlertInv
    <3>2. \A d \in Checks : check'[d] # None => d = c
      BY <2>1, <2>3, <3>1
    <3>3. a \notin notified
      BY <2>2, <3>1
    <3>4. \A b \in Alerts : shown'[b] <= 1 /\ (shown'[b] # 0 => b \in notified')
      BY <2>1, <2>4, <3>1, <3>3
    <3>5. QED
      BY <2>1, <2>3, <3>1, <3>2, <3>4
  <2>7. QED
    BY <2>1, <2>3, <2>4, <2>5, <2>6 DEF AlertInv
<1>4. ASSUME NEW c \in Checks, Desk!CheckDone(c)
      PROVE  AlertInv'
  <2>1. check' = [check EXCEPT ![c] = None] /\ UNCHANGED <<raised, shown>>
    BY <1>4 DEF Desk!CheckDone
  <2> DEFINE full == Desk!Cardinality(notified) > NotifiedMax
  <2>2. \/ notified' = (IF full THEN {} ELSE notified) /\ repeats' = (repeats \/ full)
        \/ UNCHANGED <<notified, repeats>>
    BY <1>4 DEF Desk!CheckDone
  <2> HIDE DEF full
  <2>3. ~repeats' => ~repeats /\ notified' = notified
    BY <2>2
  <2>4. /\ check' = [d \in Checks |-> check'[d]]
        /\ \A d \in Checks : check'[d] = IF d = c THEN None ELSE check[d]
    BY <2>1 DEF AlertInv
  <2>5. QED
    BY <2>1, <2>3, <2>4 DEF AlertInv
<1>5. QED
  BY <1>1, <1>2, <1>3, <1>4 DEF Desk!AlertNext

(* Every step of the desktop application, as the notifications see it.     *)
LEMMA AlertSteps ==
  ASSUME AlertInv, [Desk!Next]_(Desk!vars)
  PROVE  AlertInv'
<1>1. CASE UNCHANGED Desk!alertVars
  BY <1>1 DEF AlertInv, Desk!alertVars
<1>2. CASE Desk!ListNext \/ UNCHANGED Desk!vars
  BY <1>1, <1>2 DEF Desk!ListNext, Desk!LoadMore, Desk!Refresh, Desk!Fetch, Desk!Served, Desk!Arrived,
                    Desk!FetchFailed, Desk!vars
<1>3. QED
  BY <1>2, AlertStepsKeep DEF Desk!Next

(* useInfiniteEvents and useAlertNotifications: as long as no two calls    *)
(* overlapped and none failed no event is shown twice, and as long as no   *)
(* two checks overlapped and no ids were forgotten no alert is.            *)
THEOREM NothingTwiceCorrect == AllSpec => []NothingTwice
<1>1. AllInit => StoreInv /\ ListInv /\ AlertInv
  <2>1. SUFFICES ASSUME AllInit PROVE ListInv /\ AlertInv
    BY StoreInitHolds DEF AllInit, Desk!Init
  <2>2. Desk!Init
    BY <2>1 DEF AllInit
  <2>3. ListInv
    <3>1. /\ call = [s \in Slots |-> None] /\ items = <<>> /\ offset = 0
      BY <2>2 DEF Desk!Init
    <3>2. Distinct(<<>>)
      BY DEF Distinct
    <3>3. QED
      BY <3>1, <3>2 DEF ListInv, Single
  <2>4. AlertInv
    BY <2>2 DEF Desk!Init, AlertInv
  <2>5. QED
    BY <2>3, <2>4
<1>2. StoreInv /\ ListInv /\ AlertInv /\ [AllNext]_allVars => (StoreInv /\ ListInv /\ AlertInv)'
  BY PartSteps, StoreSteps, ListSteps, AlertSteps
<1>3. ListInv /\ AlertInv => NothingTwice
  BY DEF NothingTwice, Desk!NothingTwice, ListInv, Single, Distinct, AlertInv
<1> QED BY <1>1, <1>2, <1>3, PTL DEF AllSpec


-----------------------------------------------------------------------------
(* The types                                                               *)

(* Only services with a key are asked, and what is kept is what they know. *)
EnrichTyped ==
  /\ keyed \in KeySets /\ asked \subseteq keyed \cup {"urlhaus"}
  /\ report["geoip"] \subseteq GeoDbs
  /\ \A s \in Enrich!Services :
       report[s] # None => report[s] \in Facts[s] /\ s \in keyed \cup {"urlhaus"}
  /\ step = "idle" => risk = 0

(* The steps of enrich().                                                  *)
LEMMA EnrichTypesKept ==
  ASSUME EnrichInv, EnrichTyped, [Enrich!Next]_(Enrich!vars)
  PROVE  EnrichTyped'
<1>1. DOMAIN report = Sources /\ report = [s \in Sources |-> report[s]] /\ "geoip" \notin Enrich!Services
  BY DEF EnrichInv, ReportTyped, Enrich!Services, Enrich!AddressServices
<1>2. \A s \in Enrich!Services : Enrich!NoReports[s] = None
  BY DEF Enrich!NoReports, Enrich!Services, Enrich!AddressServices
<1>3. Enrich!NoReports["geoip"] = {}
  BY DEF Enrich!NoReports
<1>4. CASE \E e \in Enriched : Enrich!Take(e)
  <2>1. /\ report' = Enrich!NoReports /\ keyed' = keyed /\ asked' \subseteq keyed /\ step' # "idle"
    BY <1>4 DEF Enrich!Take
  <2>2. QED
    BY <1>2, <1>3, <2>1 DEF EnrichTyped
<1>5. ASSUME NEW s \in Enrich!Services, Enrich!Answer(s) PROVE EnrichTyped'
  <2>1. s \in asked /\ asked' \subseteq asked /\ UNCHANGED <<keyed, step, risk>>
    BY <1>5 DEF Enrich!Answer
  <2>2. s \in keyed \cup {"urlhaus"} /\ s # "geoip" /\ s \in Sources
    BY <1>1, <2>1 DEF EnrichTyped, Sources
  <2>3. CASE UNCHANGED report
    BY <2>1, <2>3 DEF EnrichTyped
  <2>4. ASSUME NEW r \in Enrich!Replies(s), report' = [report EXCEPT ![s] = Enrich!Report(s, r)]
        PROVE  EnrichTyped'
    <3>1. Enrich!Report(s, r) \in Facts[s] \cup {None}
      <4>1. r.body \in Facts[s] \cup {None}
        BY <2>4 DEF Enrich!Replies
      <4>2. Enrich!Report(s, r) \in {r.body, None}
        BY DEF Enrich!Report, Enrich!AbuseReport, Enrich!VirusTotalReport, Enrich!ShodanReport,
               Enrich!OtxReport, Enrich!GreyNoiseReport, Enrich!UrlhausReport, Enrich!Services,
               Enrich!AddressServices
      <4>3. QED
        BY <4>1, <4>2
    <3>2. report'[s] = Enrich!Report(s, r) /\ \A t \in Sources : t # s => report'[t] = report[t]
      BY <1>1, <2>2, <2>4
    <3>3. report'["geoip"] = report["geoip"]
      BY <2>2, <3>2 DEF Sources
    <3>4. \A t \in Enrich!Services :
            report'[t] # None => report'[t] \in Facts[t] /\ t \in keyed \cup {"urlhaus"}
      BY <2>2, <3>1, <3>2 DEF EnrichTyped, Sources
    <3>5. QED
      BY <2>1, <3>3, <3>4 DEF EnrichTyped
  <2>5. QED
    BY <1>5, <2>3, <2>4 DEF Enrich!Answer
<1>6. CASE Enrich!Joined
  <2>1. PICK dbs \in SUBSET GeoDbs : report' = [report EXCEPT !["geoip"] = dbs]
    BY <1>6 DEF Enrich!Joined
  <2>2. report'["geoip"] = dbs /\ \A t \in Enrich!Services : report'[t] = report[t]
    BY <1>1, <2>1 DEF Sources
  <2>3. UNCHANGED <<keyed, asked>> /\ step' = "hash"
    BY <1>6 DEF Enrich!Joined
  <2>4. QED
    BY <2>2, <2>3 DEF EnrichTyped
<1>7. CASE Enrich!AskVirusTotal \/ Enrich!VirusTotalAnswered \/ Enrich!AskUrlhaus \/ Enrich!UrlhausAnswered
  <2>1. /\ asked' \subseteq keyed \cup {"urlhaus"} /\ UNCHANGED <<keyed, report>> /\ step' # "idle"
    BY <1>7 DEF EnrichTyped, Enrich!AskVirusTotal, Enrich!VirusTotalAnswered, Enrich!AskUrlhaus,
                Enrich!UrlhausAnswered
  <2>2. QED
    BY <2>1 DEF EnrichTyped
<1>8. CASE Enrich!Done
  <2>1. report' = Enrich!NoReports /\ risk' = 0 /\ UNCHANGED <<keyed, asked>>
    BY <1>8 DEF Enrich!Done
  <2>2. QED
    BY <1>2, <1>3, <2>1 DEF EnrichTyped
<1>9. CASE UNCHANGED Enrich!vars
  BY <1>9 DEF Enrich!vars, EnrichTyped
<1>10. QED
  BY <1>4, <1>5, <1>6, <1>7, <1>8, <1>9 DEF Enrich!Next

(* An event's risk never leaves 0..MaxRisk whatever is added to it and     *)
(* taken away, and only services with a key are asked and heard: enrich(), *)
(* src/apps/sentinel-core-service/src/enrichment.rs.                       *)
THEOREM EnrichmentTyped == AllSpec => []Enrich!TypeOK
<1>1. AllInit => EnrichTyped
  BY DEF AllInit, Enrich!Init, EnrichTyped, Enrich!NoReports, Enrich!Services, Enrich!AddressServices
<1>2. EnrichInv /\ EnrichTyped /\ [AllNext]_allVars => EnrichTyped'
  BY PartSteps, EnrichTypesKept
<1>3. EnrichInv /\ EnrichTyped => Enrich!TypeOK
  <2> SUFFICES ASSUME EnrichInv, EnrichTyped PROVE Enrich!TypeOK
    OBVIOUS
  <2>1. MaxRisk \in Nat /\ event.risk \in Nat /\ event.risk <= MaxRisk
    BY EnrichConstants DEF EnrichInv
  <2>2. /\ FirstRisk \in Nat /\ FirstRisk <= MaxRisk
        /\ \A x \in SecondRisks : x \in Nat /\ x <= MaxRisk
    BY StageRisksAreNat
  <2>3. \A x \in SecondRisks :
          LET y == Enrich!Saturated(x + Enrich!UrlhausGain(report["urlhaus"]))
          IN y \in Nat /\ y <= MaxRisk
    <3>1. Enrich!UrlhausGain(report["urlhaus"]) \in Nat
      BY GainsAreNat
    <3> DEFINE u == Enrich!UrlhausGain(report["urlhaus"])
    <3> HIDE DEF u
    <3>2. \A x \in SecondRisks : x + u \in Nat
      BY <2>2, <3>1 DEF u
    <3>3. QED
      BY <3>2, SaturatedTwice DEF u
  <2>4. risk \in Nat /\ risk <= MaxRisk
    BY <2>1, <2>2, <2>3 DEF EnrichInv, SoFar, EnrichTyped
  <2>5. risk \in 0..MaxRisk
    BY <2>1, <2>4
  <2>6. QED
    BY <2>5 DEF EnrichInv, EnrichTyped, Enrich!TypeOK
<1>4. QED
  BY <1>1, <1>2, <1>3, EnrichAlways, PTL DEF AllSpec

(* The AI engine's cache: texts are kept under their own prompts' keys,    *)
(* and not more of them than some call allows.                             *)
AiInv ==
  /\ Ai!TypeOK /\ cache = [k \in Ai!Keys |-> cache[k]]
  /\ IsFiniteSet(Ai!Entries)
  /\ got = [c \in Callers |-> got[c]] /\ lastAsked = [c \in Callers |-> lastAsked[c]]
  /\ \A c \in Callers : prompt[c] # None => lastAsked[c] = prompt[c]

(* The AI engine's module counts like this one.                            *)
LEMMA AiConstants ==
  /\ \A S : Ai!Cardinality(S) = Cardinality(S)
  /\ \A p \in Prompts : Bound[p] \in Nat /\ Bound[p] > 0 /\ p # None /\ p # Fallback
  /\ Prompts # {} /\ MaxAsks \in Nat
<1>1. \A S : Ai!Cardinality(S) = Cardinality(S)
  BY DEF Ai!Cardinality, Cardinality
<1>2. Ai!AiAssumption
  BY AnalysisAssumption
<1>3. QED
  BY <1>1, <1>2 DEF Ai!AiAssumption

(* A text comes back.                                                      *)
LEMMA GeneratedKeeps ==
  ASSUME AiInv, NEW c \in Callers, Ai!Generated(c)
  PROVE  AiInv'
<1> DEFINE p == prompt[c]
           full == Cardinality(Ai!Entries) >= Bound[p]
           kept == IF full THEN [k \in Ai!Keys |-> None] ELSE cache
           E == IF full THEN {} ELSE Ai!Entries
<1>1. p \in Prompts /\ Key[p] \in Ai!Keys /\ p # None
  BY DEF Ai!Generated, AiInv, Ai!TypeOK, Ai!Keys
<1>2. /\ cache' = [kept EXCEPT ![Key[p]] = p] /\ got' = [got EXCEPT ![c] = p]
      /\ prompt' = [prompt EXCEPT ![c] = None] /\ UNCHANGED <<enabled, lastAsked, requests>>
  BY AiConstants DEF Ai!Generated
<1>3. /\ kept = [k \in Ai!Keys |-> kept[k]]
      /\ \A k \in Ai!Keys : kept[k] # None => kept[k] = cache[k]
      /\ E = {k \in Ai!Keys : kept[k] # None}
  BY DEF AiInv, Ai!Entries
<1> HIDE DEF kept
<1>4. /\ cache' = [k \in Ai!Keys |-> cache'[k]] /\ cache'[Key[p]] = p
      /\ \A k \in Ai!Keys : k # Key[p] => cache'[k] = kept[k]
  BY <1>1, <1>2, <1>3
<1>5. Ai!Entries' = E \cup {Key[p]}
  BY <1>1, <1>3, <1>4 DEF Ai!Entries
<1>6. IsFiniteSet(E) /\ Cardinality(E) \in Nat /\ Bound[p] \in Nat /\ Bound[p] > 0
      /\ Cardinality(E) < Bound[p]
  <2>1. Cardinality(Ai!Entries) \in Nat /\ IsFiniteSet(Ai!Entries)
    BY FS_CardinalityType DEF AiInv
  <2>2. Bound[p] \in Nat /\ Bound[p] > 0
    BY <1>1, AiConstants
  <2>3. CASE full
    BY <2>2, <2>3, FS_EmptySet
  <2>4. CASE ~full
    BY <2>1, <2>2, <2>4
  <2>5. QED
    BY <2>3, <2>4
<1> HIDE DEF E
<1>7. IsFiniteSet(Ai!Entries') /\ Cardinality(Ai!Entries') <= Bound[p]
  <2>1. /\ IsFiniteSet(E \cup {Key[p]})
        /\ Cardinality(E \cup {Key[p]}) = IF Key[p] \in E THEN Cardinality(E) ELSE Cardinality(E) + 1
    BY <1>6, FS_AddElement
  <2>2. Cardinality(E \cup {Key[p]}) <= Bound[p]
    BY <1>6, <2>1
  <2>3. QED
    BY <1>5, <2>1, <2>2
<1>8. \A k \in Ai!Keys : cache'[k] # None => cache'[k] \in Prompts /\ Key[cache'[k]] = k
  BY <1>1, <1>3, <1>4 DEF AiInv, Ai!TypeOK
<1>9. \A b \in Callers : got'[b] \in {None, Fallback} \/ Key[got'[b]] = Key[lastAsked[b]]
  <2>1. lastAsked[c] = p
    BY <1>1 DEF AiInv
  <2>2. got'[c] = p /\ \A b \in Callers : b # c => got'[b] = got[b]
    BY <1>2 DEF AiInv
  <2>3. QED
    BY <2>1, <2>2 DEF AiInv, Ai!TypeOK
<1>10. /\ prompt' \in [Callers -> Prompts \cup {None}]
       /\ \A b \in Callers : prompt'[b] # None => prompt'[b] = prompt[b]
       /\ got' = [b \in Callers |-> got'[b]]
  BY <1>2 DEF AiInv, Ai!TypeOK
<1>11. \E q \in Prompts : Ai!Cardinality(Ai!Entries') <= Bound[q]
  BY <1>1, <1>7, AiConstants
<1>12. Ai!TypeOK'
  BY <1>2, <1>8, <1>9, <1>10, <1>11 DEF AiInv, Ai!TypeOK
<1>13. QED
  BY <1>2, <1>4, <1>7, <1>10, <1>12 DEF AiInv

(* A call, a failure.                                                      *)
LEMMA AskKeeps ==
  ASSUME AiInv, NEW c \in Callers,
         (\E p \in Prompts : Ai!Ask(c, p)) \/ Ai!Failed(c)
  PROVE  AiInv'
<1>1. UNCHANGED <<enabled, cache>>
  BY DEF Ai!Ask, Ai!Failed
<1>2. Ai!Entries' = Ai!Entries
  BY <1>1 DEF Ai!Entries
<1>3. ASSUME NEW p \in Prompts, Ai!Ask(c, p) PROVE AiInv'
  <2>1. /\ prompt[c] = None /\ lastAsked' = [lastAsked EXCEPT ![c] = p]
        /\ \/ prompt' = prompt /\ requests' = requests
           \/ prompt' = [prompt EXCEPT ![c] = p] /\ requests < MaxAsks /\ requests' = requests + 1
        /\ \/ got' = [got EXCEPT ![c] = Fallback]
           \/ got' = [got EXCEPT ![c] = None]
           \/ cache[Key[p]] # None /\ got' = [got EXCEPT ![c] = cache[Key[p]]]
    BY <1>3 DEF Ai!Ask
  <2>2. /\ lastAsked' = [b \in Callers |-> lastAsked'[b]] /\ lastAsked'[c] = p
        /\ \A b \in Callers : b # c => lastAsked'[b] = lastAsked[b]
    BY <2>1 DEF AiInv
  <2>3. /\ prompt' \in [Callers -> Prompts \cup {None}]
        /\ prompt'[c] \in {None, p} /\ \A b \in Callers : b # c => prompt'[b] = prompt[b]
    BY <2>1 DEF AiInv, Ai!TypeOK
  <2>4. requests' \in 0..MaxAsks
    BY <2>1, AiConstants DEF AiInv, Ai!TypeOK
  <2>5. /\ got' = [b \in Callers |-> got'[b]]
        /\ got'[c] \in {None, Fallback} \/ Key[got'[c]] = Key[p]
        /\ \A b \in Callers : b # c => got'[b] = got[b]
    <3>1. cache[Key[p]] # None => Key[cache[Key[p]]] = Key[p]
      BY DEF AiInv, Ai!TypeOK, Ai!Keys
    <3>2. QED
      BY <2>1, <3>1 DEF AiInv
  <2>6. \A b \in Callers : got'[b] \in {None, Fallback} \/ Key[got'[b]] = Key[lastAsked'[b]]
    BY <2>2, <2>5 DEF AiInv, Ai!TypeOK
  <2>7. Ai!TypeOK'
    BY <1>1, <1>2, <2>3, <2>4, <2>6 DEF AiInv, Ai!TypeOK
  <2>8. \A b \in Callers : prompt'[b] # None => lastAsked'[b] = prompt'[b]
    BY <2>2, <2>3 DEF AiInv
  <2>9. QED
    BY <1>1, <1>2, <2>2, <2>5, <2>7, <2>8 DEF AiInv
<1>4. CASE Ai!Failed(c)
  <2>1. /\ got' \in {got, [got EXCEPT ![c] = Fallback]} /\ prompt' = [prompt EXCEPT ![c] = None]
        /\ UNCHANGED <<lastAsked, requests>>
    BY <1>4 DEF Ai!Failed
  <2>2. /\ got' = [b \in Callers |-> got'[b]]
        /\ \A b \in Callers : got'[b] \in {Fallback, got[b]}
    BY <2>1 DEF AiInv
  <2>3. /\ prompt' \in [Callers -> Prompts \cup {None}]
        /\ \A b \in Callers : prompt'[b] # None => prompt'[b] = prompt[b]
    BY <2>1 DEF AiInv, Ai!TypeOK
  <2>4. Ai!TypeOK'
    BY <1>1, <1>2, <2>1, <2>2, <2>3 DEF AiInv, Ai!TypeOK
  <2>5. QED
    BY <1>1, <1>2, <2>1, <2>2, <2>3, <2>4 DEF AiInv
<1>5. QED
  BY <1>3, <1>4

(* A caller is only ever given a text for a prompt with the key of its own *)
(* or the fallback, no failure is kept, and the cache stays within the     *)
(* largest bound of any call, however the callers interleave:              *)
(* src/crates/sentinel-ai/src/lib.rs.                                      *)
THEOREM AiCorrect == AllSpec => []Ai!TypeOK
<1>1. AllInit => AiInv
  <2> SUFFICES ASSUME Ai!Init PROVE AiInv
    BY DEF AllInit
  <2>1. Ai!Entries = {}
    BY DEF Ai!Init, Ai!Entries
  <2>2. IsFiniteSet(Ai!Entries) /\ Cardinality(Ai!Entries) = 0
    BY <2>1, FS_EmptySet
  <2>3. \E p \in Prompts : Ai!Cardinality(Ai!Entries) <= Bound[p]
    BY <2>2, AiConstants
  <2>4. Ai!TypeOK
    BY <2>3, AiConstants DEF Ai!Init, Ai!TypeOK
  <2>5. QED
    BY <2>2, <2>4 DEF Ai!Init, AiInv
<1>2. AiInv /\ [AllNext]_allVars => AiInv'
  <2> SUFFICES ASSUME AiInv, [Ai!Next]_(Ai!vars) PROVE AiInv'
    BY PartSteps
  <2>1. CASE UNCHANGED Ai!vars
    BY <2>1 DEF Ai!vars, AiInv, Ai!TypeOK, Ai!Entries
  <2>2. QED
    BY <2>1, AskKeeps, GeneratedKeeps DEF Ai!Next
<1>3. AiInv => Ai!TypeOK
  BY DEF AiInv
<1>4. QED
  BY <1>1, <1>2, <1>3, PTL DEF AllSpec
=============================================================================
