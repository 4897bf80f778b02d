---------------------------- MODULE RetentionEngine ----------------------------
(***************************************************************************)
(* The retention rules (internal/retention/engine.go) as operators: from    *)
(* what an evaluation reads of an event - its context x - to the decision.  *)
(*                                                                         *)
(* Conditions nest (and, or, not); here each condition of the configuration *)
(* has an id, and a composite one names the ids of its parts.  Days are     *)
(* ticks of a discrete clock.  A context holds everything the conditions    *)
(* and the score look at:                                                  *)
(*   kind, pubkey, created, size, tags    of the event itself              *)
(*   distance (-1: not in the graph), mutual                 of its author *)
(*   replies, reactions, zaps     its aggregate, zeros when the read fails *)
(*   now                                             at or after created   *)
(***************************************************************************)
EXTENDS Integers, FiniteSets, Sequences, SequencesExt, FiniteSetsExt

CONSTANTS
  Rules,          \* the configured rules, a sequence of records
  Conditions,     \* [condition ids -> condition records]
  OwnerPubkey,    \* as the engine got it: main.go passes the npub
  TicksPerMonth   \* the age weight drops by one per month

ASSUME TicksAssumption == TicksPerMonth \in Nat \ {0}

\* With more than twelve rules Go's sort may exchange rules of one priority.
ASSUME RulesAssumption ==
  /\ DOMAIN Rules = 1 .. Len(Rules) /\ Len(Rules) \in 0 .. 12
  /\ \A i \in DOMAIN Rules: Rules[i].priority \in Nat

Actions == {"retain", "none", "retainDays", "retainUntil", "delete", "unparsable"}

ASSUME ActionsAssumption ==
  \A i \in DOMAIN Rules: Rules[i].action.type \in Actions /\ Rules[i].action.ticks \in Int

Forever == -1  \* a retain_until that is NULL

\* A condition that sets nothing: zero values switch a gate off.
AnyCondition ==
  [all |-> FALSE, and |-> {}, or |-> {}, not |-> {},
   kinds |-> {}, kindsExclude |-> {},
   authorIsOwner |-> FALSE, authorInList |-> {}, authorNotInList |-> {},
   distanceMax |-> 0, distanceMin |-> 0, following |-> FALSE, isMutual |-> FALSE,
   ageMax |-> 0, ageMin |-> 0, sizeMax |-> 0, sizeMin |-> 0, tagsMax |-> 0,
   repliesMin |-> 0, reactionsMin |-> 0, zapsMin |-> 0]

\* A gate with an upper bound is off when the bound is zero.
AtMost(value, bound) == bound > 0 => value <= bound

\* The lower bound of the distance is looked at only with one of the others, and
\* an author who is not in the graph passes the upper one.
SocialMatches(c, x) ==
  (c.distanceMax > 0 \/ c.following \/ c.isMutual) =>
    /\ AtMost(x.distance, c.distanceMax)
    /\ c.distanceMin > 0 => x.distance >= c.distanceMin
    /\ c.following => x.distance = 1
    /\ c.isMutual => x.mutual

EventMatches(c, x) ==
  /\ c.kinds # {} => x.kind \in c.kinds
  /\ x.kind \notin c.kindsExclude
  /\ c.authorIsOwner => x.pubkey = OwnerPubkey
  /\ c.authorInList # {} => x.pubkey \in c.authorInList
  /\ x.pubkey \notin c.authorNotInList
  /\ AtMost(x.now - x.created, c.ageMax)
  /\ c.ageMin > 0 => x.now - x.created >= c.ageMin
  /\ AtMost(x.size, c.sizeMax) /\ x.size >= c.sizeMin
  /\ AtMost(x.tags, c.tagsMax)

InteractionsMatch(c, x) ==
  /\ x.replies >= c.repliesMin
  /\ x.reactions >= c.reactionsMin
  /\ x.zaps >= c.zapsMin

\* A composite condition ignores its own gates, and of its parts the first kind
\* that is present counts.  A "not" holds when none of its parts does.
EvaluateConditions(x) ==
  LET matches[i \in DOMAIN Conditions] ==
        LET c == Conditions[i]
        IN  IF c.all THEN TRUE
            ELSE IF c.and # {} THEN \A j \in c.and: matches[j]
            ELSE IF c.or # {} THEN \E j \in c.or: matches[j]
            ELSE IF c.not # {} THEN \A j \in c.not: ~matches[j]
            ELSE SocialMatches(c, x) /\ EventMatches(c, x) /\ InteractionsMatch(c, x)
  IN  matches

\* Variant of Before: the lowest priority first.
BeforeAscending(i, j) ==
  \/ Rules[i].priority < Rules[j].priority
  \/ Rules[i].priority = Rules[j].priority /\ i < j

\* NewEngine's copy of the rules, by descending priority.  Go sorts up to twelve
\* elements by insertion, which keeps rules of one priority in their order.
Before(i, j) ==
  \/ Rules[i].priority > Rules[j].priority
  \/ Rules[i].priority = Rules[j].priority /\ i < j

Place(i) == 1 + Cardinality({j \in DOMAIN Rules: Before(j, i)})

RuleAt(n) == CHOOSE i \in DOMAIN Rules: Place(i) = n

SortedRules == [n \in DOMAIN Rules |-> Rules[RuleAt(n)]]

AtLeastZero(n) == Max({0, n})

CalculateScore(x, priority) ==
  priority * 100
    + (IF x.pubkey = OwnerPubkey THEN 1000 ELSE 0)
    + (IF x.distance >= 0 THEN 100 * AtLeastZero(10 - x.distance) ELSE 0)
    + 10 * AtLeastZero(10 - (x.now - x.created) \div TicksPerMonth)
    + 5 * Min({10, x.replies + x.reactions \div 10 + x.zaps \div 1000})

\* The first of the action's settings that is present counts, in this order; with
\* none of them the event has no date, and no protection either.
RetainUntil(action, x) ==
  CASE action.type \in {"retain", "none"} -> Forever
    [] action.type = "retainDays"  -> x.created + action.ticks
    [] action.type = "retainUntil" -> action.ticks
    [] action.type = "delete"      -> x.now + action.ticks

ApplyAction(x, rule) ==
  [rule      |-> rule.name,
   until     |-> RetainUntil(rule.action, x),
   protected |-> rule.action.type = "retain",
   score     |-> CalculateScore(x, rule.priority)]

DefaultDelete(x) ==
  [rule |-> "default_delete", until |-> x.now, protected |-> FALSE, score |-> 0]

\* A retain_until that does not parse makes the whole evaluation fail.
EvaluateEvent(x) ==
  LET matches == EvaluateConditions(x)
      hits    == {i \in DOMAIN SortedRules: matches[SortedRules[i].conditions]}
  IN  IF hits = {} THEN [failed |-> FALSE, decision |-> DefaultDelete(x)]
      ELSE LET rule == SortedRules[Min(hits)]
           IN  [failed   |-> rule.action.type = "unparsable",
                decision |-> IF rule.action.type = "unparsable" THEN DefaultDelete(x)
                             ELSE ApplyAction(x, rule)]

-------------------------------------------------------------------------------
\* "If multiple rules match, highest priority wins" (docs/configuration.md:521),
\* without sorting or order of evaluation: among the matching rules of the
\* highest priority the one that comes first in the configuration decides - none
\* stands in for it when its action is invalid - and only an event that nothing
\* matches is deleted by default.
DecidedByHighestPriority(x) ==
  LET matches  == EvaluateConditions(x)
      matching == {i \in DOMAIN Rules: matches[Rules[i].conditions]}
      best     == {i \in matching: \A j \in matching: /\ Rules[i].priority >= Rules[j].priority
                                                      /\ Rules[i].priority = Rules[j].priority => i <= j}
      result   == EvaluateEvent(x)
  IN  IF matching = {} THEN result.decision.rule = "default_delete" /\ ~result.failed
      ELSE \E i \in best: IF Rules[i].action.type = "unparsable" THEN result.failed
                          ELSE ~result.failed /\ result.decision.rule = Rules[i].name
===============================================================================
