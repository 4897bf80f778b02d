----------------------------- MODULE MCBrowsing ------------------------------
(***************************************************************************)
(* Model values for Browsing: an owner with three notes, an article and a  *)
(* reply of their own; another author's replies, in both tag formats, a    *)
(* note that only mentions, and one that belongs to another thread.        *)
(***************************************************************************)
EXTENDS Browsing

Tag(id, marker) == [id |-> id, marker |-> marker]
Post(id, kind, author, created, eTags, pTags, words) ==
  [id |-> id, kind |-> kind, author |-> author, created |-> created,
   eTags |-> eTags, pTags |-> pTags, words |-> words]

MCEvent ==
  [ n1 |-> Post("n1", 1, "own", 1, <<>>, {}, {"tea"}),
    a1 |-> Post("a1", 30023, "own", 2, <<>>, {}, {"tea", "pot"}),
    n2 |-> Post("n2", 1, "own", 3, <<>>, {}, {"pot"}),
    r1 |-> Post("r1", 1, "ann", 4, <<Tag("n1", "")>>, {"own"}, {"pot"}),
    r2 |-> Post("r2", 1, "own", 5, <<Tag("n1", "root"), Tag("r1", "reply")>>, {"ann"}, {"tea"}),
    m1 |-> Post("m1", 1, "ann", 6, <<Tag("n1", "mention")>>, {"own"}, {}),
    p1 |-> Post("p1", 0, "ann", 7, <<>>, {}, {"tea"}),
    x1 |-> Post("x1", 1, "ann", 8, <<Tag("n2", "root"), Tag("n2", "reply"), Tag("n1", "mention")>>,
         {"own"}, {}),
    r3 |-> Post("r3", 1, "ann", 9, <<Tag("n1", ""), Tag("n2", ""), Tag("r2", "")>>, {}, {}),
    n3 |-> Post("n3", 1, "own", 10, <<>>, {}, {}) ]

MCAggregates == [id \in DOMAIN MCEvent |->
  [replies   |-> IF id \in {"n1", "r1"} THEN 1 ELSE 0,
   reactions |-> IF id = "n1" THEN 2 ELSE IF id = "n3" THEN 1 ELSE 0,
   zapSats   |-> IF id = "n2" THEN 3 ELSE 0]]

NoRules == [enabled |-> FALSE, minReactions |-> 0, minZapSats |-> 0, minEngagement |-> 0,
            hideNoInteractions |-> FALSE]
By(mode, rules) == [rules |-> rules, notes |-> mode, articles |-> mode, replies |-> mode,
                    mentions |-> mode]

Time(t) == [form |-> "time", value |-> t]
Duration(d) == [form |-> "duration", value |-> d]

Section(name, path) ==
  [name |-> name, path |-> path, order |-> 1, kinds |-> {1}, authors |-> {}, scope |-> "",
   isReply |-> {}, pTags |-> {}, since |-> [form |-> "absent"], until |-> [form |-> "absent"], sortBy |-> "", sortOrder |-> "", limit |-> 0,
   moreLink |-> NoSection]

Configured ==
  LoadFromConfig(<<
    [Section("front", <<>>) EXCEPT !.isReply = {FALSE}, !.kinds = {1, 30023}, !.moreLink = "all"],
    [Section("all", <<"all">>) EXCEPT !.limit = 1],
    [Section("all", <<"all">>) EXCEPT !.scope = "all", !.kinds = {}, !.moreLink = "lost"],
    [Section("ann", <<"all">>) EXCEPT !.authors = {"ann", "npub-own"}, !.sortOrder = "asc"],
    [Section("notes", <<"notes">>) EXCEPT !.sortBy = "zaps", !.since = Duration(-7), !.until = Time(9),
                                       !.moreLink = "lost"],
    [Section("lost", <<"">>) EXCEPT !.isReply = {TRUE}] >>)

Limits(depth) == [maxRepliesInFeed |-> 1, maxThreadDepth |-> depth]

MCSites ==
  { [behavior |-> By("chronological", NoRules), sections |-> {}, limits |-> Limits(4),
     showThread |-> TRUE],
    [behavior |-> By("engagement", [NoRules EXCEPT !.enabled = TRUE, !.hideNoInteractions = TRUE,
                                                   !.minEngagement = 1]),
     sections |-> {s \in Configured : s.path # <<"notes">> /\ s.path # <<>>},
     limits |-> Limits(2), showThread |-> FALSE],
    [behavior |-> By("zaps", NoRules), sections |-> Configured, limits |-> Limits(0),
     showThread |-> TRUE] }

MCInitialStores == {{"n1", "n2", "r1", "r2"}, DOMAIN MCEvent}

MCHexOf == [npub \in {"npub-own"} |-> "own"]

MCTyped ==
  {<<>>, <<"nowhere">>, <<"note">>, <<"note", "r1">>, <<"note", "r2">>, <<"note", "a1">>,
   <<"thread">>, <<"thread", "r2">>, <<"thread", "x1">>, <<"thread", "a1">>, <<"profile">>, <<"profile", "ann">>,
   <<"outbox">>, <<"inbox">>, <<"notes", "">>, <<"notes", "n1">>, <<"notes", "page", "7">>,
   <<"notes", "page", "x">>, <<"search", "tea">>, <<"search", "none">>, <<"search">>}

MCFingerQueries ==
  {[verbose |-> v, user |-> u, host |-> h] :
     v \in BOOLEAN, u \in {"", "owner", "ann", "own"}, h \in {"", "elsewhere"}}
=============================================================================
