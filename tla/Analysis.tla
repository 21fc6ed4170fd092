------------------------------- MODULE Analysis -------------------------------
(***************************************************************************)
(* What is done with events and alerts beside the pipeline: the response   *)
(* engine (extended, so its names stand for themselves), the rule engine,  *)
(* enrichment, the AI engine, and the desktop application over the event   *)
(* store. They share no state in the code, so it is enough that one moves  *)
(* while the others rest where they start; of the desktop application      *)
(* either the list of events moves, with the store, or the notifications.  *)
(***************************************************************************)
EXTENDS ResponseEngine, Sequences

CONSTANTS
  RuleFiles, DirOrder, DirOf, RuleDefs, Parts, PartOf, RuleEvents,     \* RuleEngine
  HotReload, MaxScore, MaxEdits, MaxRuleCalls, Bad, None,
  KeySets, Enriched, Facts, GeoDbs, IocFiles, MaxRisk,                 \* Enrichment
  Callers, Prompts, Key, Bound, Split, NeedsAi, MaxAsks, Fallback,     \* AiEngine
  Rows, Writers, Batch, Policies, DayLength, MaxStoreTime,             \* EventStore
  PageSize, Slots, MaxCalls, Alerts, AlertLimit, NotifiedMax, Checks,  \* DesktopClient
  MaxChecks

VARIABLES
  moving,                                              \* the part that does
  disk, dirs, pc, opened, listing, compiled, errors, seen, rules, watching, task, notices, table,
  last, edits, calls,                                  \* RuleEngine
  keyed, step, event, asked, report, risk, tags,       \* Enrichment
  enabled, cache, prompt, got, lastAsked, requests,    \* AiEngine
  clock, stored, lock, written, result,                \* EventStore
  call, items, total, hasMore, loadingMore, offset, latest, fetches, tangled,
  raised, check, notified, checks, shown, repeats      \* DesktopClient

Rules == INSTANCE RuleEngine
           WITH Files <- RuleFiles, Defs <- RuleDefs, Events <- RuleEvents,
                MaxCalls <- MaxRuleCalls

Enrich == INSTANCE Enrichment WITH Events <- Enriched, Keys <- KeySets, pc <- step

Ai == INSTANCE AiEngine WITH last <- lastAsked

Desk == INSTANCE DesktopClient
          WITH MaxTime <- MaxStoreTime,
               now <- clock, table <- stored, outcome <- result, calls <- fetches

ASSUME AnalysisAssumption ==
  /\ Rules!RuleAssumption /\ Enrich!EnrichmentAssumption /\ Ai!AiAssumption
  /\ ResponseAssumption /\ Desk!DesktopAssumption

-----------------------------------------------------------------------------
Movers == {"rules", "enrichment", "ai", "response", "list", "notifications"}

ruleVars == <<disk, dirs, pc, opened, listing, compiled, errors, seen, rules, watching, task,
              notices, table, last, edits, calls>>
enrichVars == <<keyed, step, event, asked, report, risk, tags>>
aiVars == <<enabled, cache, prompt, got, lastAsked, requests>>
responseVars == vars
deskVars == <<clock, stored, lock, written, result, call, items, total, hasMore, loadingMore, offset,
              latest, fetches, tangled, raised, check, notified, checks, shown, repeats>>
allVars == <<moving, ruleVars, enrichVars, aiVars, responseVars, deskVars>>

AllInit ==
  /\ moving \in Movers
  /\ Init /\ Rules!Init /\ Enrich!Init /\ Ai!Init /\ Desk!Init
  /\ moving = "rules" \/ \A f \in RuleFiles : disk[f] = None
  /\ moving = "rules" \/ \A d \in Rules!Dirs : dirs[d] = "ok"
  /\ moving = "enrichment" \/ keyed = {}
  /\ moving = "ai" \/ enabled
  /\ event = CHOOSE e \in Enriched : TRUE

AllNext ==
  \/ /\ moving = "rules" /\ Rules!Next
     /\ UNCHANGED <<moving, enrichVars, aiVars, responseVars, deskVars>>
  \/ /\ moving = "enrichment" /\ Enrich!Next
     /\ UNCHANGED <<moving, ruleVars, aiVars, responseVars, deskVars>>
  \/ /\ moving = "ai" /\ Ai!Next
     /\ UNCHANGED <<moving, ruleVars, enrichVars, responseVars, deskVars>>
  \/ /\ moving = "response" /\ Next
     /\ UNCHANGED <<moving, ruleVars, enrichVars, aiVars, deskVars>>
  \/ /\ moving = "list" /\ Desk!ListNext
     /\ UNCHANGED <<moving, ruleVars, enrichVars, aiVars, responseVars>>
  \/ /\ moving = "notifications" /\ Desk!AlertNext
     /\ UNCHANGED <<moving, ruleVars, enrichVars, aiVars, responseVars>>

AllSpec == AllInit /\ [][AllNext]_allVars

-----------------------------------------------------------------------------
(* The properties of the instances, under names of this module.            *)

(* Every component's state has its type.                                   *)
AllTyped ==
  /\ moving = "rules" => Rules!TypeOK
  /\ moving = "enrichment" => Enrich!TypeOK
  /\ moving = "ai" => Ai!TypeOK
  /\ moving = "response" => TypeOK
  /\ moving \in {"list", "notifications"} => Desk!TypeOK

(* An enriched event's risk and tags are what each service's report adds.  *)
EachCountsAlone == Enrich!EachCountsAlone

(* A broken file costs no other file its rule.                             *)
LoadedWhatWasRead == Rules!LoadedWhatWasRead

(* Of an appended batch all rows are kept or none.                         *)
BatchesWhole == Desk!BatchesWhole

(* The desktop application shows no event and no alert twice by itself.    *)
NothingTwice == Desk!NothingTwice
=============================================================================
