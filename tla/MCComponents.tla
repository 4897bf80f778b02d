----------------------------- MODULE MCComponents ----------------------------
(***************************************************************************)
(* Five machines that share nothing, checked in one run: the event cache,  *)
(* the aggregate path, the rate limiter, the static exporters and the life *)
(* of the process.  A behaviour is a behaviour of one of them, "machine",  *)
(* while the others stay where they start.                                 *)
(***************************************************************************)
EXTENDS EventCacheMachine, RateLimiter, StaticExport, Process, MCAggregateWorker

VARIABLE machine

vars == <<ring, aggVars, limiterVars, exportVars, procVars, machine>>

\* A process that has ended stands still.
MCInit ==
  /\ machine \in {"event cache", "aggregates", "rate limiter",
                 "exporter", "process"}
  /\ Init /\ AggInit /\ LimiterInit /\ ExportInit
  /\ IF machine = "process" THEN ProcInit ELSE ProcEnded

MCNext ==
  /\ UNCHANGED machine
  /\ \/ /\ machine = "event cache" /\ Next
        /\ UNCHANGED <<aggVars, limiterVars, exportVars, procVars>>
     \/ /\ machine = "aggregates" /\ AggNext
        /\ UNCHANGED <<ring, limiterVars, exportVars, procVars>>
     \/ /\ machine = "rate limiter" /\ LimiterNext
        /\ UNCHANGED <<ring, aggVars, exportVars, procVars>>
     \/ /\ machine = "exporter" /\ ExportNext
        /\ UNCHANGED <<ring, aggVars, limiterVars, procVars>>
     \/ /\ machine = "process" /\ ProcNext
        /\ UNCHANGED <<ring, aggVars, limiterVars, exportVars>>

MCSpec == MCInit /\ [][MCNext]_vars /\ AggFairness /\ ProcFairness

ComponentsTypeOK ==
  /\ TypeOK /\ AggTypeOK
  /\ LimiterTypeOK /\ ExportTypeOK /\ ProcTypeOK

-------------------------------------------------------------------------------
\* A note, a reply and a newer note that can crowd it out, and an article.
APost(id, kind, created, eTags) ==
  [id |-> id, kind |-> kind, author |-> "own", created |-> created, eTags |-> eTags, pTags |-> {}]
ToNote == << [id |-> "n1", marker |-> ""] >>
MCPosts == {APost("n1", 1, 1, << >>), APost("r3", 1, 3, ToNote),
            APost("n4", 1, 4, << >>), APost("a5", 30023, 5, << >>)}
MCPost == [id \in {e.id : e \in MCPosts} |-> CHOOSE e \in MCPosts : e.id = id]

MCExporters == <<"gopher", "gemini">>
MCServerOrder == <<"gopher", "gemini", "finger">>
===============================================================================
