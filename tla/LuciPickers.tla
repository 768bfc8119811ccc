----------------------------- MODULE LuciPickers -----------------------------
(***************************************************************************)
(* The gateway pickers of the dashboard: the country drop-downs, the       *)
(* gateway lists under them, the prefill from the saved configuration, and *)
(* what the Connect button sends.  A list is fetched once per side and     *)
(* shared by everyone who asks; if it fails, countries and lists come from *)
(* older calls of their own, whose replies may arrive in any order.        *)
(*                                                                         *)
(* The page is one thread: `jobs` are the promise callbacks that are due,  *)
(* run first in first out before any click or reply is handled.            *)
(***************************************************************************)
EXTENDS Naturals, Sequences

CONSTANTS PickSides,      \* {"entry", "exit"} or one of them
          PickCountries,  \* countries with one gateway each, named after them
          NoBridge,       \* the countries whose gateway has no bridge
          Circumvention,  \* store.circumvention: only bridges may be entries
          PickClicks,     \* bound on what the user does
          PickFaults      \* bound on failed calls

ASSUME PickAssumption == /\ PickSides \subseteq {"entry", "exit"}
                         /\ NoBridge \subseteq PickCountries
                         /\ {"none", "random", "all", "any", "prompt", "loading", "blank", "error"} \cap PickCountries = {}
                         /\ Circumvention \in BOOLEAN
                         /\ PickClicks \in Nat /\ PickFaults \in Nat

VARIABLES picker,   \* dirty, generation, and per side the select and its list
          feed,     \* per side the shared list, the options and the calls in flight
          jobs,     \* promise callbacks that are due
          gets,     \* gateway_get calls in flight
          points,   \* the entry and exit point saved in the daemon
          visit     \* the user: last pick per side, what was sent, tunnel, bounds

pickVars == <<picker, feed, jobs, gets, points, visit>>

\* A point: a gateway of a country, a country, Random, or no choice.
PickGateway(c) == [type |-> "gateway", country |-> c]
PickCountry(c) == [type |-> "country", country |-> c]
PickRandom     == [type |-> "random", country |-> "none"]
PickNothing    == [type |-> "nothing", country |-> "none"]
PickPoints     == {PickRandom} \cup {PickGateway(c): c \in PickCountries}
                               \cup {PickCountry(c): c \in PickCountries}

NoPrefill == [gen |-> 0, point |-> PickNothing]

\* The gateways of a list.  A checked row is "none" without a list, "any" for
\* the Any Gateway row, else the country of its gateway.
ListOf(country) == IF country = "all" THEN PickCountries ELSE {country}

\* Entry gateways that cannot carry the transport are greyed.
disabled(s, c) == s = "entry" /\ Circumvention /\ c \in NoBridge

-----------------------------------------------------------------------------
(* The shared promises of api.js.                                          *)

PickQuiet == jobs = <<>>
Fails == /\ visit.faults > 0
         /\ visit' = [visit EXCEPT !.faults = @ - 1, !.fellBack = TRUE]

\* The callbacks of a list: the options of the select and the lists asked for.
Countries(s) == [job |-> "countries", side |-> s]
Render(s, country, prefill) == [job |-> "render", side |-> s, country |-> country, prefill |-> prefill]

gatewayList(f, s, callback) ==
    IF f[s].list = "ready" THEN [feed |-> f, due |-> <<callback>>]
    ELSE [feed |-> [f EXCEPT ![s].list = "pending", ![s].onList = Append(@, callback)], due |-> <<>>]

\* The options are built once; callers wait for the same promise.
ensureLoaded(s, callback) ==
    LET waiting == [feed EXCEPT ![s].onLoad = Append(@, callback)]
    IN  CASE feed[s].load = "ready" -> [feed |-> feed, due |-> <<callback>>]
          [] feed[s].load \in {"pending", "fallback"} -> [feed |-> waiting, due |-> <<>>]
          [] feed[s].load = "none" ->
               gatewayList([waiting EXCEPT ![s].load = "pending"], s, Countries(s))

\* gateway_list_full: the whole directory of one type.
gateway_list_full(s) ==
    /\ PickQuiet /\ feed[s].list = "pending"
    /\ jobs' = feed[s].onList
    /\ feed' = [feed EXCEPT ![s].list = "ready", ![s].onList = <<>>]
    /\ UNCHANGED <<picker, gets, points, visit>>

\* Not cached when it fails: options and lists then ask the older calls,
\* but for All countries, which has none.
ByCountry(waiters) == {w \in {waiters[i]: i \in DOMAIN waiters}: w.job = "render" /\ w.country # "all"}
NoList(waiters) == {w \in {waiters[i]: i \in DOMAIN waiters}: w.job = "render" /\ w.country = "all"}

ListFails(s) ==
    /\ PickQuiet /\ feed[s].list = "pending" /\ Fails
    /\ feed' = [feed EXCEPT ![s].list = "none", ![s].onList = <<>>,
                            ![s].load = IF @ = "pending" THEN "fallback" ELSE @,
                            ![s].calls = @ \cup ByCountry(feed[s].onList)]
    /\ picker' = IF NoList(feed[s].onList) = {} THEN picker
                 ELSE [picker EXCEPT !.side[s].shown = "error", !.side[s].checked = "none"]
    /\ UNCHANGED <<jobs, gets, points>>

\* The daemon did not answer at all: no fallback is tried.
ListTimesOut(s) ==
    /\ PickQuiet /\ feed[s].list = "pending" /\ Fails
    /\ LET lists == \E i \in DOMAIN feed[s].onList: feed[s].onList[i].job = "render"
       IN  picker' = IF lists THEN [picker EXCEPT !.side[s].shown = "error", !.side[s].checked = "none"]
                     ELSE picker
    /\ jobs' = IF feed[s].load = "pending" THEN feed[s].onLoad ELSE <<>>
    /\ feed' = [feed EXCEPT ![s].list = "none", ![s].onList = <<>>,
                            ![s].load = IF @ = "pending" THEN "none" ELSE @,
                            ![s].onLoad = IF feed[s].load = "pending" THEN <<>> ELSE @]
    /\ UNCHANGED <<gets, points>>

populateCountrySelect(s, list) ==
    [picker EXCEPT !.side[s].value = "none",
                   !.side[s].options = {"none", "random"} \cup (IF list = {} THEN {} ELSE {"all"} \cup list)]

\* An error comes back as an empty list, which is taken for the directory.
gateway_list_countries(s) ==
    /\ PickQuiet /\ feed[s].load = "fallback"
    /\ \/ picker' = populateCountrySelect(s, PickCountries) /\ visit' = visit
       \/ picker' = populateCountrySelect(s, {}) /\ Fails
    /\ jobs' = feed[s].onLoad
    /\ feed' = [feed EXCEPT ![s].load = "ready", ![s].onLoad = <<>>]
    /\ UNCHANGED <<gets, points>>

\* The call itself fails: the promise is cleared and resolves, its callbacks
\* find no options.
CountriesFail(s) ==
    /\ PickQuiet /\ feed[s].load = "fallback" /\ Fails
    /\ jobs' = feed[s].onLoad
    /\ feed' = [feed EXCEPT ![s].load = "none", ![s].onLoad = <<>>]
    /\ UNCHANGED <<picker, gets, points>>

gateway_list_by_country(s) ==
    /\ PickQuiet
    /\ \E call \in feed[s].calls:
         /\ \/ jobs' = <<call>> /\ UNCHANGED <<picker, visit>>
            \/ /\ Fails /\ jobs' = jobs
               /\ picker' = [picker EXCEPT !.side[s].shown = "error", !.side[s].checked = "none"]
         /\ feed' = [feed EXCEPT ![s].calls = @ \ {call}]
    /\ UNCHANGED <<gets, points>>

\* A second and a half after the page is built, whoever asks first.
Prewarm ==
    /\ PickQuiet /\ ~visit.warm
    /\ feed' = [s \in PickSides |-> [feed[s] EXCEPT !.list = IF @ = "none" THEN "pending" ELSE @]]
    /\ visit' = [visit EXCEPT !.warm = TRUE]
    /\ UNCHANGED <<picker, jobs, gets, points>>

-----------------------------------------------------------------------------
(* Lists.                                                                  *)

\* What is drawn at once, and the list that is asked for.
Asked(p, s, country) ==
    [p EXCEPT !.side[s].checked = "none",
              !.side[s].shown = CASE country = "none" -> "prompt"
                                  [] country = "random" -> "blank"
                                  [] OTHER -> "loading"]

loadGatewaysForCountry(p, s, country, prefill) ==
    /\ picker' = Asked(p, s, country)
    /\ IF country \in {"none", "random"}
       THEN feed' = feed /\ jobs' = IF PickQuiet THEN jobs ELSE Tail(jobs)
       ELSE LET asked == gatewayList(feed, s, Render(s, country, prefill))
            IN  /\ feed' = asked.feed
                /\ jobs' = (IF PickQuiet THEN jobs ELSE Tail(jobs)) \o asked.due

Stale(prefill) == prefill.gen # picker.gen \/ picker.dirty

\* The list is drawn with Any Gateway checked, whatever the select shows by
\* now; a prefill that is still wanted then checks the saved gateway.
RunRender ==
    /\ jobs # <<>> /\ Head(jobs).job = "render"
    /\ LET job  == Head(jobs)
           s    == job.side
           c    == job.prefill.point.country
           pins == /\ job.prefill # NoPrefill /\ ~Stale(job.prefill)
                   /\ job.prefill.point.type = "gateway"
                   /\ c \in ListOf(job.country) /\ ~disabled(s, c)
       IN  picker' = [picker EXCEPT !.side[s].shown = job.country,
                                    !.side[s].checked = IF pins THEN c ELSE "any"]
    /\ jobs' = Tail(jobs)
    /\ UNCHANGED <<feed, gets, points, visit>>

RunCountries ==
    /\ jobs # <<>> /\ Head(jobs).job = "countries"
    /\ LET s == Head(jobs).side
       IN  /\ picker' = populateCountrySelect(s, PickCountries)
           /\ jobs' = Tail(jobs) \o feed[s].onLoad
           /\ feed' = [feed EXCEPT ![s].load = "ready", ![s].onLoad = <<>>]
    /\ UNCHANGED <<gets, points, visit>>

-----------------------------------------------------------------------------
(* Prefill.                                                                *)

Restored(p) == [p EXCEPT !.gen = @ + 1]

restore == /\ picker' = IF picker.dirty THEN picker ELSE Restored(picker)
           /\ gets' = IF picker.dirty THEN gets
                      ELSE gets \cup {[gen |-> picker.gen + 1, read |-> FALSE, points |-> points]}

\* The name cache and the directory both failing leave the country out.
gateway_name_map(point) ==
    {point} \cup (IF point.type = "gateway" /\ visit.faults > 0
                  THEN {[point EXCEPT !.country = "none"]} ELSE {})

gateway_get == /\ PickQuiet
               /\ \E get \in gets:
                    /\ ~get.read
                    /\ \E named \in [PickSides -> PickPoints \cup {[type |-> "gateway", country |-> "none"]}]:
                         /\ \A s \in PickSides: named[s] \in gateway_name_map(points[s])
                         /\ gets' = (gets \ {get}) \cup {[get EXCEPT !.read = TRUE, !.points = named]}
                         /\ visit' = IF named = points THEN visit
                                     ELSE [visit EXCEPT !.faults = @ - 1, !.fellBack = TRUE]
               /\ UNCHANGED <<picker, feed, jobs, points>>

\* One callback per side, in the order of the code.
RestoreSide(s, get) == [job |-> "restore", side |-> s, prefill |-> [gen |-> get.gen, point |-> get.points[s]]]

PrefillArrives ==
    /\ PickQuiet
    /\ \E get \in gets:
         /\ get.read
         /\ gets' = gets \ {get}
         /\ jobs' = IF get.gen # picker.gen \/ picker.dirty THEN <<>>
                    ELSE LET sides == SelectSeq(<<"entry", "exit">>, LAMBDA s: s \in PickSides)
                         IN  [i \in DOMAIN sides |->
                                [job |-> "load", side |-> sides[i], then |-> RestoreSide(sides[i], get)]]
    /\ UNCHANGED <<picker, feed, points, visit>>

PrefillFails == /\ PickQuiet /\ Fails
                /\ \E get \in gets: gets' = gets \ {get}
                /\ UNCHANGED <<picker, feed, jobs, points>>

RunLoad ==
    /\ jobs # <<>> /\ Head(jobs).job = "load"
    /\ LET loaded == ensureLoaded(Head(jobs).side, Head(jobs).then)
       IN  feed' = loaded.feed /\ jobs' = Tail(jobs) \o loaded.due
    /\ UNCHANGED <<picker, gets, points, visit>>

\* Faulty variant: picks made while the options loaded are not looked at.
restoreSideDirty ==
    /\ jobs # <<>> /\ Head(jobs).job = "restore"
    /\ LET s     == Head(jobs).side
           saved == Head(jobs).prefill
           value == IF saved.point.type = "random" THEN "random" ELSE saved.point.country
       IN  IF saved.gen # picker.gen \/ value = "none" \/ value \notin picker.side[s].options
           THEN jobs' = Tail(jobs) /\ UNCHANGED <<picker, feed>>
           ELSE loadGatewaysForCountry([picker EXCEPT !.side[s].value = value], s, value, saved)
    /\ UNCHANGED <<gets, points, visit>>

restoreSide ==
    /\ jobs # <<>> /\ Head(jobs).job = "restore"
    /\ LET s     == Head(jobs).side
           saved == Head(jobs).prefill
           value == IF saved.point.type = "random" THEN "random" ELSE saved.point.country
       IN  IF Stale(saved) \/ value = "none" \/ value \notin picker.side[s].options
           THEN jobs' = Tail(jobs) /\ UNCHANGED <<picker, feed>>
           ELSE loadGatewaysForCountry([picker EXCEPT !.side[s].value = value], s, value, saved)
    /\ UNCHANGED <<gets, points, visit>>

-----------------------------------------------------------------------------
(* The user.                                                               *)

Clicks == PickQuiet /\ ~visit.up /\ visit.clicks > 0
Wants(s, point) == [visit EXCEPT !.clicks = @ - 1, !.want[s] = point]

\* What a value of the select stands for.
Chosen(value) == CASE value = "none" -> PickNothing
                   [] value \in {"random", "all"} -> PickRandom
                   [] OTHER -> PickCountry(value)

onSelect(s, value) ==
    /\ Clicks /\ value \in picker.side[s].options /\ value # picker.side[s].value
    /\ loadGatewaysForCountry([picker EXCEPT !.dirty = TRUE, !.side[s].value = value], s, value, NoPrefill)
    /\ visit' = Wants(s, Chosen(value))
    /\ UNCHANGED <<gets, points>>

selectOption(s, c) ==
    /\ Clicks /\ picker.side[s].shown \in {"all"} \cup PickCountries
    /\ \/ c = "any"
       \/ c \in ListOf(picker.side[s].shown) /\ ~disabled(s, c)
    /\ picker.side[s].checked # c
    /\ picker' = [picker EXCEPT !.dirty = TRUE, !.side[s].checked = c]
    /\ visit' = Wants(s, IF c = "any" THEN Chosen(picker.side[s].value) ELSE PickGateway(c))
    /\ UNCHANGED <<feed, jobs, gets, points>>

\* A search with no list on screen opens All countries once the options are in.
onSearch(s) ==
    /\ Clicks /\ picker.side[s].value \in {"none", "random"}
    /\ LET loaded == ensureLoaded(s, [job |-> "search", side |-> s, current |-> picker.side[s].value])
       IN  feed' = loaded.feed /\ jobs' = loaded.due
    /\ visit' = [visit EXCEPT !.clicks = @ - 1]
    /\ UNCHANGED <<picker, gets, points>>

RunSearch ==
    /\ jobs # <<>> /\ Head(jobs).job = "search"
    /\ LET s == Head(jobs).side
       IN  IF picker.side[s].value # Head(jobs).current \/ "all" \notin picker.side[s].options
           THEN jobs' = Tail(jobs) /\ UNCHANGED <<picker, feed, visit>>
           ELSE /\ loadGatewaysForCountry([picker EXCEPT !.dirty = TRUE, !.side[s].value = "all"],
                                          s, "all", NoPrefill)
                /\ visit' = [visit EXCEPT !.want[s] = PickRandom]
    /\ UNCHANGED <<gets, points>>

Focus(s) ==
    /\ Clicks /\ feed[s].load = "none"
    /\ LET loaded == ensureLoaded(s, [job |-> "search", side |-> s, current |-> "focus"])
       IN  feed' = loaded.feed /\ jobs' = loaded.due
    /\ visit' = [visit EXCEPT !.clicks = @ - 1]
    /\ UNCHANGED <<picker, gets, points>>

checkedId(s) == IF picker.side[s].checked \in PickCountries THEN picker.side[s].checked ELSE "none"

\* All countries is no location: by id, or Random.
selection(s) ==
    LET id    == checkedId(s)
        value == IF picker.side[s].value = "all" /\ id = "none" THEN "random" ELSE picker.side[s].value
    IN  CASE value = "random" -> PickRandom
          [] value # "random" /\ id # "none" -> PickGateway(id)
          [] value # "random" /\ id = "none" /\ value # "none" -> PickCountry(value)
          [] OTHER -> PickNothing

\* The guard asks for a choice on both sides; the prefill is called off.
handleConnectPicks ==
    /\ Clicks /\ visit.sent = <<>>
    /\ picker' = [picker EXCEPT !.gen = @ + 1]
    /\ visit' = [visit EXCEPT !.clicks = @ - 1,
                              !.sent = IF \E s \in PickSides: selection(s) = PickNothing THEN @
                                       ELSE <<[s \in PickSides |-> selection(s)]>>]
    /\ UNCHANGED <<feed, jobs, gets, points>>

\* gateway_set saves entry, then exit; the connect follows even if it failed.
gateway_set_points ==
    /\ PickQuiet /\ visit.sent # <<>> /\ ~visit.up
    /\ \E done \in SUBSET PickSides:
         /\ "exit" \in done => "entry" \in done \/ "entry" \notin PickSides
         /\ done # PickSides => visit.faults > 0
         /\ points' = [s \in PickSides |-> IF s \in done THEN visit.sent[1][s] ELSE points[s]]
         /\ visit' = [visit EXCEPT !.up = TRUE,
                                   !.faults = IF done = PickSides THEN @ ELSE @ - 1,
                                   !.fellBack = @ \/ done # PickSides]
    /\ UNCHANGED <<picker, feed, jobs, gets>>

\* The poll sees the tunnel up: the picks are the daemon's now.
onConnected ==
    /\ PickQuiet /\ visit.up /\ visit.sent # <<>>
    /\ picker' = [picker EXCEPT !.gen = @ + 1, !.dirty = FALSE]
    /\ visit' = [visit EXCEPT !.sent = <<>>, !.want = [s \in PickSides |-> PickNothing]]
    /\ UNCHANGED <<feed, jobs, gets, points>>

\* The poll sees it down, after it was up or without.
onDisconnected ==
    /\ PickQuiet /\ visit.up
    /\ restore
    /\ visit' = [visit EXCEPT !.up = FALSE, !.sent = <<>>]
    /\ UNCHANGED <<feed, jobs, points>>

-----------------------------------------------------------------------------
PickersInit ==
    /\ picker = [dirty |-> FALSE, gen |-> 1,
                 side |-> [s \in PickSides |-> [value |-> "none", options |-> {"none"},
                                                shown |-> "prompt", checked |-> "none"]]]
    /\ feed = [s \in PickSides |-> [list |-> "none", onList |-> <<>>, load |-> "none",
                                    onLoad |-> <<>>, calls |-> {}]]
    /\ jobs = <<>>
    /\ points \in [PickSides -> PickPoints]
    /\ gets = {[gen |-> 1, read |-> FALSE, points |-> points]}
    /\ visit = [want |-> [s \in PickSides |-> PickNothing], sent |-> <<>>, up |-> FALSE,
                fellBack |-> FALSE, warm |-> FALSE, clicks |-> PickClicks, faults |-> PickFaults]

PickersNext ==
    \/ \E s \in PickSides:
         \/ gateway_list_full(s) \/ ListFails(s) \/ ListTimesOut(s)
         \/ gateway_list_countries(s) \/ CountriesFail(s) \/ gateway_list_by_country(s)
         \/ \E value \in {"none", "random", "all"} \cup PickCountries: onSelect(s, value)
         \/ \E c \in {"any"} \cup PickCountries: selectOption(s, c)
         \/ onSearch(s) \/ Focus(s)
    \/ Prewarm \/ RunRender \/ RunCountries \/ RunLoad \/ RunSearch \/ restoreSide
    \/ gateway_get \/ PrefillArrives \/ PrefillFails
    \/ handleConnectPicks \/ gateway_set_points \/ onConnected \/ onDisconnected

PickersSpec == PickersInit /\ [][PickersNext]_pickVars

-----------------------------------------------------------------------------
\* The shape of the state.
PickersTypeOK ==
    /\ picker.dirty \in BOOLEAN /\ picker.gen \in Nat
    /\ \A s \in PickSides: /\ picker.side[s].value \in picker.side[s].options
                           /\ picker.side[s].checked \in {"none", "any"} \cup PickCountries
                           /\ feed[s].list \in {"none", "pending", "ready"}
                           /\ feed[s].load \in {"none", "pending", "fallback", "ready"}
    /\ points \in [PickSides -> PickPoints]
    /\ visit.clicks \in 0..PickClicks /\ visit.faults \in 0..PickFaults

\* No prefill and no late list takes a pick away: what Connect would send for
\* a side is what the user last chose there, while the full list is served.
PickIsSent ==
    PickQuiet /\ ~visit.up /\ ~visit.fellBack
        => \A s \in PickSides: visit.want[s] # PickNothing => selection(s) = visit.want[s]

\* What a saved point comes back as: a gateway greyed by the transport falls
\* to its country.
Restorable(s) ==
    IF points[s].type = "gateway" /\ disabled(s, points[s].country)
    THEN PickCountry(points[s].country) ELSE points[s]

\* The pickers at rest show what the daemon has saved, as far as the
\* directory allows (connect.js prefill).
PrefillMatches ==
    PickQuiet /\ gets = {} /\ ~picker.dirty /\ ~visit.up /\ ~visit.fellBack /\ visit.sent = <<>>
      /\ (\A s \in PickSides: feed[s].load = "ready" /\ feed[s].onList = <<>>)
        => \A s \in PickSides: selection(s) \in {PickNothing, Restorable(s)}

=============================================================================
