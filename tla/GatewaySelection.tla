-------------------------- MODULE GatewaySelection --------------------------
(***************************************************************************)
(* Choosing an entry and an exit gateway (gateway_selector.rs over the     *)
(* lists of nym-gateway-directory): the best-scoring exit is drawn first,  *)
(* then the best-scoring entry independent of it; an exit that leaves no   *)
(* entry is dropped and the next best tried.  When the independence        *)
(* criteria rule every pair out the search is repeated without them, to    *)
(* tell the user whether relaxing them would help.                         *)
(*                                                                         *)
(* Every draw is random among the gateways of the best score that has any, *)
(* so the search is a nondeterministic machine, one step per draw; the     *)
(* blacklist's entries may expire between two steps.  A directory gives    *)
(* each identity a kind; {} stands for None, {x} for Some(x).              *)
(***************************************************************************)
EXTENDS Naturals, FiniteSets

CONSTANTS Identities,   \* the gateways of the directory
          Kinds,        \* what the directory says of a gateway, see Kind
          EntryPoints,  \* settings: <<"random">>, <<"country", c>>, <<"gateway", g>>
          ExitPoints,
          CriteriaSets  \* settings: sets of "asn", "family", "subnet"

Kind == [score : 0..3, country : {"a", "b"}, asn : SUBSET {1, 2},
         family : SUBSET {1}, route : SUBSET {1, 2}, residential : BOOLEAN,
         bridge : BOOLEAN]
ASSUME KindsAssumption == Kinds \subseteq Kind

VARIABLES directory,  \* what is known of each gateway
          settings,   \* the user's settings, fixed during a selection
          blacklist,  \* entries that failed lately, not yet expired
          search      \* the selection's progress and its result

selectionVars == <<directory, settings, blacklist, search>>

-----------------------------------------------------------------------------
(* Every criterion of criteria that two gateways fail.  An unknown ASN or  *)
(* route counts as a violation, an unknown family does not.                *)
independence_violations(g, h, criteria) ==
    LET a == directory[g]  b == directory[h] IN
    IF g = h THEN {"SameGateway"}
    ELSE {v \in {"asn"} : v \in criteria /\ (a.asn = {} \/ a.asn = b.asn \/ b.asn = {})}
    \cup {v \in {"family"} : v \in criteria /\ a.family # {} /\ a.family = b.family}
    \cup {v \in {"subnet"} : v \in criteria
            /\ (a.route = {} \/ b.route = {} \/ a.route = b.route
                \/ a.asn = {} \/ b.asn = {})}

gateways_are_independent(g, h, criteria) ==
    independence_violations(g, h, criteria) = {}

InPoint(g, point) ==
    CASE point[1] = "random"  -> TRUE
      [] point[1] = "country" -> directory[g].country = point[2]
      [] point[1] = "gateway" -> g = point[2]

(* The gateways of the best score of list that are in candidates: a score  *)
(* of 0 (no performance data) meets no minimum.                            *)
OfBestScore(candidates) ==
    LET scored == {g \in candidates : directory[g].score > 0}
    IN {g \in scored : \A h \in scored : directory[h].score <= directory[g].score}

(* What find_best_entry_gateway may return: a pinned gateway whatever its  *)
(* score and the filters, otherwise a best one that passes them.           *)
find_best_entry_gateway(list, point, banned) ==
    IF point[1] = "gateway" THEN list \cap {point[2]}
    ELSE OfBestScore({g \in list : InPoint(g, point) /\ g \notin banned})

find_best_exit_gateway(list, point, residential) ==
    IF point[1] = "gateway" THEN list \cap {point[2]}
    ELSE OfBestScore({g \in list : /\ InPoint(g, point)
                                   /\ residential => directory[g].residential})

(* With bridges on, only gateways announcing one qualify as entries.       *)
candidate_lists ==
    [entry |-> {g \in Identities : settings.bridges => directory[g].bridge},
     exit |-> Identities]

(* The filter of PairSelection::new: what the blacklist bars at this       *)
(* moment, unless the selection has set it aside.                          *)
Banned == IF search.unfiltered THEN {} ELSE blacklist

blacklist_rules_out_every_entry ==
    LET entries == candidate_lists.entry IN
    /\ blacklist # {}
    /\ find_best_entry_gateway(entries, settings.entry, blacklist) = {}
    /\ find_best_entry_gateway(entries, settings.entry, {}) # {}

-----------------------------------------------------------------------------
(* select_gateway_pair refuses one gateway pinned as both ends; select     *)
(* decides about the blacklist.                                            *)
Begin ==
    /\ search.at = "begin"
    /\ search' =
         IF settings.entry[1] = "gateway" /\ settings.entry = settings.exit
         THEN [search EXCEPT !.at = "done", !.result = <<"SameEntryAndExit">>]
         ELSE [search EXCEPT !.at = "entry_point",
                             !.unfiltered = blacklist_rules_out_every_entry,
                             !.barred = blacklist]
    /\ UNCHANGED <<directory, settings, blacklist>>

(* The end of one run of select_with_criteria without a pair: the strict   *)
(* search keeps its error and the relaxed one begins; the relaxed one      *)
(* returns that error.                                                     *)
Failed(err) ==
    IF search.criteria # {}
    THEN [search EXCEPT !.at = "entry_point", !.criteria = {},
                        !.strict = {err}, !.exits = Identities, !.failed = {}]
    ELSE [search EXCEPT !.at = "done",
                        !.result = IF search.strict # {}
                                   THEN CHOOSE e \in search.strict : TRUE
                                   ELSE err]

(* An entry point nothing matches fails at once.                           *)
EntryPointCheck ==
    /\ search.at = "entry_point"
    /\ search' = IF find_best_entry_gateway(candidate_lists.entry,
                                            settings.entry, Banned) = {}
                 THEN Failed(<<"EntryGatewayUnavailable">>)
                 ELSE [search EXCEPT !.at = "exit"]
    /\ UNCHANGED <<directory, settings, blacklist>>

(* The next best exit; with none left the search failed, for want of an    *)
(* entry if there ever was an exit.                                        *)
DrawExit ==
    /\ search.at = "exit"
    /\ LET exits == find_best_exit_gateway(search.exits, settings.exit,
                                           settings.residential)
       IN \/ /\ exits = {}
             /\ search' = Failed(IF search.failed # {}
                                 THEN <<"EntryGatewayUnavailable">>
                                 ELSE <<"ExitGatewayUnavailable">>)
          \/ \E x \in exits :
               search' = [search EXCEPT !.at = "entry", !.exit = {x}]
    /\ UNCHANGED <<directory, settings, blacklist>>

(* Faulty variant: the entry need not be independent.                      *)
DrawEntryDependent ==
    /\ search.at = "entry"
    /\ \E e \in find_best_entry_gateway(candidate_lists.entry, settings.entry, Banned),
          x \in search.exit :
         search' = [search EXCEPT
           !.at = "done",
           !.result = IF search.strict # {} THEN <<"NeedsRelaxed">> ELSE <<"pair", e, x>>,
           !.banned = Banned]
    /\ UNCHANGED <<directory, settings, blacklist>>

(* An entry independent of it; without one the exit is dropped.  A pair    *)
(* found by the relaxed search is not used: the caller is told that        *)
(* relaxing would help.                                                    *)
DrawEntry ==
    /\ search.at = "entry"
    /\ \E x \in search.exit :
       LET list == {g \in candidate_lists.entry :
                      gateways_are_independent(g, x, search.criteria)}
           entries == find_best_entry_gateway(list, settings.entry, Banned)
       IN \/ /\ entries = {}
             /\ search' = [search EXCEPT !.at = "exit", !.exit = {},
                                         !.exits = @ \ {x}, !.failed = {x}]
          \/ \E e \in entries :
               search' = [search EXCEPT
                 !.at = "done",
                 !.result = IF search.strict # {} THEN <<"NeedsRelaxed">>
                            ELSE <<"pair", e, x>>,
                 !.banned = Banned]
    /\ UNCHANGED <<directory, settings, blacklist>>

(* An entry of the blacklist passes its TTL.                               *)
Expires(g) ==
    /\ search.at # "done"
    /\ g \in blacklist
    /\ blacklist' = blacklist \ {g}
    /\ UNCHANGED <<directory, settings, search>>

-----------------------------------------------------------------------------
SelectionInit ==
    /\ directory \in [Identities -> Kinds]
    /\ settings \in [entry : EntryPoints, exit : ExitPoints,
                     criteria : CriteriaSets, residential : BOOLEAN,
                     bridges : BOOLEAN]
    /\ blacklist \in SUBSET Identities
    /\ search = [at |-> "begin", unfiltered |-> FALSE, barred |-> {},
                 criteria |-> settings.criteria, strict |-> {},
                 exits |-> Identities, exit |-> {}, failed |-> {},
                 banned |-> {}, result |-> <<"none">>]

SelectionStep == Begin \/ EntryPointCheck \/ DrawExit \/ DrawEntry

SelectionNext == SelectionStep \/ \E g \in Identities : Expires(g)

(* The selection is a loop without a wait.                                 *)
SelectionFairness == WF_selectionVars(SelectionStep)

SelectionSpec == /\ SelectionInit /\ [][SelectionNext]_selectionVars
                 /\ SelectionFairness
-----------------------------------------------------------------------------
Finished == search.at = "done"
Entries == {g \in candidate_lists.entry :
              settings.entry[1] = "gateway" \/ directory[g].score > 0}
Exits == {g \in Identities :
            \/ settings.exit[1] = "gateway"
            \/ /\ directory[g].score > 0
               /\ settings.residential => directory[g].residential}

(* The reference: the pairs the settings allow, whatever their scores,     *)
(* with entries outside banned unless pinned.                              *)
AllowedPairs(criteria, banned) ==
    {p \in Entries \X Exits :
       /\ InPoint(p[1], settings.entry) /\ InPoint(p[2], settings.exit)
       /\ settings.entry[1] = "gateway" \/ p[1] \notin banned
       /\ independence_violations(p[1], p[2], criteria) = {}}

(* Types: the exit drawn is one of those left, and at most one error of    *)
(* the strict search is kept for the caller (gateway_selector.rs).         *)
SelectionTypeOK ==
    /\ directory \in [Identities -> Kinds] /\ blacklist \subseteq Identities
    /\ search.at \in {"begin", "entry_point", "exit", "entry", "done"}
    /\ search.exits \subseteq Identities
    /\ search.exit \subseteq search.exits /\ Cardinality(search.exit) <= 1
    /\ Cardinality(search.strict) <= 1

(* gateway_selector.rs select: a pair that is returned is allowed by the   *)
(* settings and independent under the strict criteria, and its entry is a  *)
(* blacklisted one only if the blacklist barred every entry the settings   *)
(* allow when the selection began.                                         *)
PairIsAllowed ==
    (Finished /\ search.result[1] = "pair") =>
      LET e == search.result[2]  x == search.result[3] IN
      /\ <<e, x>> \in AllowedPairs(settings.criteria, search.banned)
      /\ search.unfiltered =>
           \A g \in Entries : InPoint(g, settings.entry) => g \in search.barred

(* gateway_selector.rs select: the search gives up only when there is no   *)
(* pair to find, although it draws at random and drops an exit on one      *)
(* failure; it asks the user to relax the criteria exactly when that would *)
(* yield a pair, and it blames the exit only if no exit qualifies.         *)
FailsOnlyWithoutPair ==
    LET bar == IF search.unfiltered THEN {} ELSE search.barred IN
    Finished =>
      /\ search.result[1] \in {"EntryGatewayUnavailable",
                               "ExitGatewayUnavailable"}
           => AllowedPairs({}, bar) = {}
      /\ search.result[1] = "NeedsRelaxed"
           => /\ AllowedPairs(settings.criteria, bar) = {}
              /\ AllowedPairs({}, {}) # {}
      /\ search.result[1] = "ExitGatewayUnavailable"
           => ~\E x \in Exits : InPoint(x, settings.exit)

(* Every selection that begins ends: each failed exit leaves the list.     *)
SelectionEnds == search.at # "begin" ~> Finished

(* A finished search is right, whether it found a pair or gave up.         *)
SelectionCorrect == SelectionTypeOK /\ PairIsAllowed /\ FailsOnlyWithoutPair
=============================================================================
