--------------------------- MODULE DiscoveryProofs ---------------------------
(***************************************************************************)
(* Proofs about the network environment: what a daemon has fetched is      *)
(* never given up for the compiled-in defaults, and a mainnet daemon       *)
(* always starts with two whole files, for every number of versions,       *)
(* faults and commands.                                                    *)
(***************************************************************************)
EXTENDS NetworkDiscovery, TLAPS

Fetched == {<<"fetched", v>> : v \in 1..DiscVersions}
Torn == {<<"absent">>, <<"torn">>}
Whole(file) == file.holds \notin Torn

Files == [holds : Contents, age : Ages]
DiscSteps ==
    {<<"down">>, <<"up">>, <<"failed">>} \cup ({"ensure", "refreshed", "backdate"} \X FileNames)
      \cup ({"write"} \X FileNames \X Contents)
ProcType == [name : {"mainnet", "sandbox"}, at : DiscSteps, booting : BOOLEAN]
RefresherType ==
    [paused : BOOLEAN, idle : BOOLEAN, last : {"never", "recent", "old"}, due : 0..2,
     overridden : BOOLEAN, network : [FileNames -> Contents]]
WorldType ==
    [version : 1..DiscVersions, online : BOOLEAN, faults : 0..DiscFaults, commands : 0..DiscCommands]

\* What a step of the daemon says about the files and the network in use: a
\* started daemon writes only what it fetched, one file at a time, over files
\* that were whole; and where it uses what was fetched, the file has it too.
StepOK(n, p, network) ==
    /\ p.at[1] \in {"ensure", "failed", "backdate"} => p.booting
    /\ p.at[1] \in {"up", "refreshed"} => ~p.booting /\ \A f \in FileNames : Whole(n[f])
    /\ p.at[1] = "write" => p.at[3] \notin Torn
    /\ p.at[1] = "write" /\ ~p.booting =>
         p.at[3] \in Fetched /\ \A f \in FileNames \ {p.at[2]} : Whole(n[f])
    /\ p.at[1] \in {"ensure", "write", "backdate"} /\ p.at[2] = "network" => Whole(n["discovery"])
    /\ p.at[1] = "failed" => p.name # "mainnet"
    /\ ~p.booting /\ p.at[1] # "down" => \A f \in FileNames :
         /\ network[f] \notin Torn
         /\ network[f] \in Fetched => n[f].holds \in Fetched \cup {<<"torn">>}

\* The inductive invariant.
DiscInv ==
    /\ netfiles \in [FileNames -> Files] /\ proc \in ProcType /\ refresher \in RefresherType
    /\ world \in WorldType
    /\ StepOK(netfiles, proc, refresher.network)

\* The step part of FetchedIsKept.
Kept == \A f \in FileNames :
    refresher.network[f] \in Fetched /\ ~proc.booting /\ proc.at # <<"down">>
      => refresher'.network[f] # <<"default">>

\* What is fetched is none of the other contents.
LEMMA FetchedIs ==
    ASSUME NEW x \in Fetched
    PROVE  x \in Contents /\ x \notin Torn /\ x # <<"default">>
<1>1. PICK v \in 1..DiscVersions : x = <<"fetched", v>>
    BY DEF Fetched
<1>2. x[1] = "fetched"
    BY <1>1
<1>3. <<"absent">>[1] = "absent" /\ <<"torn">>[1] = "torn" /\ <<"default">>[1] = "default"
    OBVIOUS
<1>4. x \in Contents
    BY DEF Contents, Fetched
<1>5. QED
    BY <1>2, <1>3, <1>4 DEF Torn

\* The built-in defaults read well; a torn file is a file.
LEMMA DefaultIs == <<"default">> \in Contents /\ <<"default">> \notin Torn /\ Torn \subseteq Contents
<1>1. <<"absent">>[1] = "absent" /\ <<"torn">>[1] = "torn" /\ <<"default">>[1] = "default"
    OBVIOUS
<1>2. QED
    BY <1>1 DEF Contents, Torn

\* The steps, told apart by their first component.
LEMMA StepIs ==
    /\ <<"down">> \in DiscSteps /\ <<"up">> \in DiscSteps /\ <<"failed">> \in DiscSteps
    /\ <<"down">>[1] = "down" /\ <<"up">>[1] = "up" /\ <<"failed">>[1] = "failed"
    /\ \A s \in {"ensure", "refreshed", "backdate"}, f \in FileNames :
         <<s, f>> \in DiscSteps /\ <<s, f>>[1] = s /\ <<s, f>>[2] = f
    /\ \A f \in FileNames, h \in Contents :
         /\ <<"write", f, h>> \in DiscSteps
         /\ <<"write", f, h>>[1] = "write" /\ <<"write", f, h>>[2] = f /\ <<"write", f, h>>[3] = h
    /\ \A at \in DiscSteps : at[1] = "down" => at = <<"down">>
<1>1. ASSUME NEW at \in DiscSteps, at[1] = "down" PROVE at = <<"down">>
    <2>1. CASE at \in {<<"down">>, <<"up">>, <<"failed">>}
        BY <1>1, <2>1
    <2>2. CASE at \in {"ensure", "refreshed", "backdate"} \X FileNames
        BY <1>1, <2>2
    <2>3. CASE at \in {"write"} \X FileNames \X Contents
        BY <1>1, <2>3
    <2>4. QED
        BY <2>1, <2>2, <2>3 DEF DiscSteps
<1>2. \A s \in {"ensure", "refreshed", "backdate"}, f \in FileNames : <<s, f>> \in DiscSteps
    BY DEF DiscSteps
<1>3. \A f \in FileNames, h \in Contents : <<"write", f, h>> \in DiscSteps
    BY DEF DiscSteps
<1>4. QED
    BY <1>1, <1>2, <1>3 DEF DiscSteps

\* A step that leaves the network in use alone keeps it.
LEMMA DiscMoves ==
    ASSUME DiscInv, netfiles' \in [FileNames -> Files], proc' \in ProcType,
           refresher' \in RefresherType, refresher'.network = refresher.network, world' \in WorldType,
           StepOK(netfiles', proc', refresher.network)
    PROVE  DiscInv' /\ Kept
<1>1. Kept
    BY FetchedIs DEF Kept
<1>2. QED
    BY <1>1 DEF DiscInv

\* So does one that changes no content and goes nowhere.
LEMMA DiscStays ==
    ASSUME DiscInv, netfiles' \in [FileNames -> Files],
           \A f \in FileNames : netfiles'[f].holds = netfiles[f].holds, UNCHANGED proc,
           refresher' \in RefresherType, refresher'.network = refresher.network, world' \in WorldType
    PROVE  DiscInv' /\ Kept
<1>1. StepOK(netfiles', proc', refresher.network)
    BY DEF DiscInv, StepOK, Whole, FileNames
<1>2. QED
    BY <1>1, DiscMoves DEF DiscInv

\* Opening a file for writing h, in a daemon that starts or has fetched h.
LEMMA DiscTruncates ==
    ASSUME DiscInv, NEW f \in FileNames, NEW h \in Contents \ Torn, Truncate(f, h),
           UNCHANGED refresher, world' \in WorldType,
           \/ proc.booting
           \/ h \in Fetched /\ proc.at[1] \in {"up", "refreshed"},
           f = "network" => Whole(netfiles["discovery"])
    PROVE  DiscInv' /\ Kept
<1> DEFINE at == <<"write", f, h>>
<1>1. /\ netfiles \in [FileNames -> Files] /\ proc \in ProcType /\ refresher \in RefresherType
      /\ StepOK(netfiles, proc, refresher.network)
    BY DEF DiscInv
<1>2. at \in DiscSteps /\ at[1] = "write" /\ at[2] = f /\ at[3] = h
    BY StepIs
<1>3. proc' = [proc EXCEPT !.at = at]
    BY DEF Truncate
<1> HIDE DEF at
<1>4. proc' \in ProcType /\ proc'.at = at /\ proc'.booting = proc.booting /\ proc'.name = proc.name
    BY <1>1, <1>2, <1>3 DEF ProcType
<1>5. netfiles' \in [FileNames -> Files]
    BY <1>1, DefaultIs DEF Truncate, Files, Ages, Torn
<1>6. netfiles'[f].holds = <<"torn">> /\ \A g \in FileNames \ {f} : netfiles'[g] = netfiles[g]
    BY <1>1 DEF Truncate
<1>7. StepOK(netfiles', proc', refresher.network)
    <2>1. ~proc.booting => \A g \in FileNames : Whole(netfiles[g])
        BY <1>1 DEF StepOK
    <2>2. f = "network" => "discovery" \in FileNames \ {f}
        BY DEF FileNames
    <2>3. ~proc.booting => \A g \in FileNames :
             /\ refresher.network[g] \notin Torn
             /\ refresher.network[g] \in Fetched => netfiles'[g].holds \in Fetched \cup {<<"torn">>}
        BY <1>1, <1>6 DEF StepOK
    <2>4. QED
        BY <1>2, <1>4, <1>6, <2>1, <2>2, <2>3 DEF StepOK, Whole
<1>8. QED
    BY <1>1, <1>4, <1>5, <1>7, DiscMoves

\* A failure, and the contents a fetch gives.
LEMMA FaultIs ==
    ASSUME DiscInv, Faulted
    PROVE  Fault \in WorldType
BY DiscAssumption DEF DiscInv, WorldType, Faulted, Fault

\* What a fetch can return.
LEMMA FetchIs ==
    ASSUME DiscInv
    PROVE  fetch \in Fetched /\ fetch_nym_network_details \in Fetched
BY DEF DiscInv, WorldType, fetch, fetch_nym_network_details, Fetched

\* The start.
LEMMA BootSteps ==
    ASSUME DiscInv, Boots
    PROVE  DiscInv' /\ Kept
<1>1. /\ netfiles \in [FileNames -> Files] /\ proc \in ProcType /\ refresher \in RefresherType
      /\ world \in WorldType /\ StepOK(netfiles, proc, refresher.network)
    BY DEF DiscInv
<1>2. "discovery" \in FileNames /\ "network" \in FileNames
      /\ \A f \in FileNames : f \in {"discovery", "network"}
    BY DEF FileNames
<1>3. ASSUME NEW at \in DiscSteps, DiscStep(at)
      PROVE  proc' \in ProcType /\ proc'.at = at /\ proc'.booting = proc.booting /\ proc'.name = proc.name
    BY <1>1, <1>3 DEF DiscStep, ProcType
<1>4. CASE StartDaemon
    <2> DEFINE at == <<"ensure", "discovery">>
    <2>1. proc' = [proc EXCEPT !.at = at, !.booting = TRUE] /\ UNCHANGED <<netfiles, refresher, world>>
        BY <1>4 DEF StartDaemon
    <2>2. at \in DiscSteps /\ at[1] = "ensure" /\ at[2] = "discovery"
        BY <1>2, StepIs
    <2> HIDE DEF at
    <2>3. proc' \in ProcType /\ proc'.at = at /\ proc'.booting
        BY <1>1, <2>1, <2>2 DEF ProcType
    <2>4. StepOK(netfiles', proc', refresher.network)
        BY <2>2, <2>3 DEF StepOK
    <2>5. QED
        BY <1>1, <2>1, <2>3, <2>4, DiscMoves
<1>5. CASE ensure_discovery_exists
    <2>1. proc.at = <<"ensure", "discovery">> /\ UNCHANGED refresher
        BY <1>5 DEF ensure_discovery_exists
    <2>2. proc.at[1] = "ensure" /\ proc.booting
        BY <1>1, <1>2, <2>1, StepIs DEF StepOK
    <2>3. CASE ~should_overwrite_file("discovery") /\ DiscStep(<<"ensure", "network">>) /\ UNCHANGED <<netfiles, world>>
        <3> DEFINE at == <<"ensure", "network">>
        <3>1. at \in DiscSteps /\ at[1] = "ensure" /\ at[2] = "network"
            BY <1>2, StepIs
        <3>2. DiscStep(at)
            BY <2>3
        <3> HIDE DEF at
        <3>3. proc' \in ProcType /\ proc'.at = at /\ proc'.booting
            BY <1>3, <2>2, <3>1, <3>2
        <3>4. Whole(netfiles["discovery"])
            BY <2>3 DEF should_overwrite_file, Whole, Torn
        <3>5. StepOK(netfiles', proc', refresher.network)
            BY <2>3, <3>1, <3>3, <3>4 DEF StepOK
        <3>6. QED
            BY <1>1, <2>1, <2>3, <3>3, <3>5, DiscMoves
    <2>4. CASE Truncate("discovery", <<"default">>) /\ world' \in WorldType
        BY <1>2, <2>1, <2>2, <2>4, DefaultIs, DiscTruncates
    <2>5. CASE Truncate("discovery", fetch) /\ UNCHANGED world
        <3>1. fetch \in Contents \ Torn
            BY FetchIs, FetchedIs
        <3>2. QED
            BY <1>1, <1>2, <2>1, <2>2, <2>5, <3>1, DiscTruncates
    <2>6. QED
        BY <1>1, <1>5, <2>3, <2>4, <2>5, FaultIs DEF ensure_discovery_exists
<1>6. CASE ensure_network_exists
    <2>1. proc.at = <<"ensure", "network">>
        BY <1>6 DEF ensure_network_exists
    <2>2. proc.at[1] = "ensure" /\ proc.at[2] = "network" /\ proc.booting /\ Whole(netfiles["discovery"])
        BY <1>1, <1>2, <2>1, StepIs DEF StepOK
    <2>3. CASE /\ ~should_overwrite_file("network") /\ Up([g \in FileNames |-> netfiles[g].holds])
               /\ UNCHANGED <<netfiles, world>>
        <3> DEFINE network == [g \in FileNames |-> netfiles[g].holds]
        <3>1. /\ proc' = [proc EXCEPT !.at = <<"up">>, !.booting = FALSE]
              /\ refresher' = [paused |-> FALSE, idle |-> FALSE, last |-> "never", due |-> 1,
                               overridden |-> FALSE, network |-> network]
            BY <2>3 DEF Up
        <3>2. proc' \in ProcType /\ proc'.at = <<"up">> /\ ~proc'.booting
            BY <1>1, <3>1, StepIs DEF ProcType
        <3>3. network \in [FileNames -> Contents]
            BY <1>1 DEF Files
        <3>4. refresher' \in RefresherType /\ refresher'.network = network
            BY <3>1, <3>3 DEF RefresherType
        <3>5. \A g \in FileNames : Whole(netfiles[g])
            BY <1>2, <2>2, <2>3 DEF should_overwrite_file, Whole, Torn
        <3>6. \A g \in FileNames : network[g] = netfiles[g].holds
            OBVIOUS
        <3> HIDE DEF network
        <3>7. StepOK(netfiles', proc', refresher'.network)
            BY <2>3, <3>2, <3>4, <3>5, <3>6, StepIs DEF StepOK, Whole
        <3>8. Kept
            BY <2>2 DEF Kept
        <3>9. QED
            BY <1>1, <2>3, <3>2, <3>4, <3>7, <3>8 DEF DiscInv
    <2>4. CASE Truncate("network", fetch_nym_network_details) /\ UNCHANGED <<refresher, world>>
        <3>1. fetch_nym_network_details \in Contents \ Torn
            BY FetchIs, FetchedIs
        <3>2. QED
            BY <1>1, <1>2, <2>2, <2>4, <3>1, DiscTruncates
    <2>5. CASE Truncate("network", <<"default">>) /\ world' \in WorldType /\ UNCHANGED refresher
        BY <1>2, <2>2, <2>5, DefaultIs, DiscTruncates
    <2>6. CASE /\ proc.name # "mainnet" /\ DiscStep(<<"failed">>) /\ world' \in WorldType
               /\ UNCHANGED <<netfiles, refresher>>
        <3>1. proc' \in ProcType /\ proc'.at = <<"failed">> /\ proc'.booting /\ proc'.name # "mainnet"
            BY <1>3, <2>2, <2>6, StepIs
        <3>2. StepOK(netfiles', proc', refresher.network)
            BY <3>1, StepIs DEF StepOK
        <3>3. QED
            BY <1>1, <2>6, <3>1, <3>2, DiscMoves
    <2>7. QED
        BY <1>1, <1>6, <2>3, <2>4, <2>5, <2>6, FaultIs DEF ensure_network_exists
<1>7. CASE Respawned
    <2>1. DiscStep(<<"down">>) /\ UNCHANGED <<netfiles, refresher, world>>
        BY <1>7 DEF Respawned
    <2>2. proc' \in ProcType /\ proc'.at = <<"down">>
        BY <1>3, <2>1, StepIs
    <2>3. StepOK(netfiles', proc', refresher.network)
        BY <2>2, StepIs DEF StepOK
    <2>4. QED
        BY <1>1, <2>1, <2>2, <2>3, DiscMoves
<1>8. QED
    BY <1>4, <1>5, <1>6, <1>7 DEF Boots

\* Where a write leads.
LEMMA AfterWriteIs ==
    ASSUME NEW f \in FileNames
    PROVE  /\ AfterWrite(f) \in DiscSteps /\ AfterWrite(f)[2] = f
           /\ AfterWrite(f)[1] = IF proc.booting THEN "ensure" ELSE "refreshed"
BY StepIs DEF AfterWrite

\* A write, and the check of the refresher.
LEMMA CheckStepsKeep ==
    ASSUME DiscInv, CheckSteps \/ CheckTick
    PROVE  DiscInv' /\ Kept
<1>1. /\ netfiles \in [FileNames -> Files] /\ proc \in ProcType /\ refresher \in RefresherType
      /\ world \in WorldType /\ StepOK(netfiles, proc, refresher.network)
    BY DEF DiscInv
<1>2. "discovery" \in FileNames /\ "network" \in FileNames
      /\ \A f \in FileNames : f \in {"discovery", "network"}
    BY DEF FileNames
<1>3. ASSUME NEW at \in DiscSteps, DiscStep(at)
      PROVE  proc' \in ProcType /\ proc'.at = at /\ proc'.booting = proc.booting /\ proc'.name = proc.name
    BY <1>1, <1>3 DEF DiscStep, ProcType
<1>4. CASE WriteFile
    <2>1. PICK f \in FileNames, h \in Contents :
              /\ proc.at = <<"write", f, h>> /\ netfiles' = [netfiles EXCEPT ![f].holds = h]
              /\ DiscStep(IF h = <<"default">> THEN <<"backdate", f>> ELSE AfterWrite(f))
              /\ UNCHANGED <<refresher, world>>
        BY <1>4 DEF WriteFile
    <2>2. proc.at[1] = "write" /\ proc.at[2] = f /\ proc.at[3] = h
        BY <2>1, StepIs
    <2>3. netfiles[f] \in Files
        BY <1>1
    <2>4. /\ netfiles' \in [FileNames -> Files] /\ netfiles'[f].holds = h
          /\ \A g \in FileNames \ {f} : netfiles'[g] = netfiles[g]
        BY <1>1, <2>1, <2>3 DEF Files
    <2>5. h \notin Torn /\ (~proc.booting => h \in Fetched /\ h # <<"default">>)
        BY <1>1, <2>2, FetchedIs DEF StepOK
    <2> DEFINE at == IF h = <<"default">> THEN <<"backdate", f>> ELSE AfterWrite(f)
    <2>6. /\ at \in DiscSteps /\ at[2] = f
          /\ at[1] \in {"backdate", "ensure", "refreshed"}
          /\ proc.booting => at[1] \in {"backdate", "ensure"}
          /\ ~proc.booting => at[1] = "refreshed"
        BY <2>5, StepIs, AfterWriteIs
    <2>7. DiscStep(at)
        BY <2>1
    <2> HIDE DEF at
    <2>8. proc' \in ProcType /\ proc'.at = at /\ proc'.booting = proc.booting
        BY <1>3, <2>6, <2>7
    <2>9. f = "network" => Whole(netfiles'["discovery"])
        BY <1>1, <1>2, <2>2, <2>4 DEF StepOK
    <2>10. ~proc.booting => \A g \in FileNames : Whole(netfiles'[g])
        BY <1>1, <2>2, <2>4, <2>5 DEF StepOK, Whole
    <2>11. ~proc.booting => \A g \in FileNames :
              /\ refresher.network[g] \notin Torn
              /\ refresher.network[g] \in Fetched => netfiles'[g].holds \in Fetched \cup {<<"torn">>}
        BY <1>1, <2>2, <2>4, <2>5 DEF StepOK
    <2>12. StepOK(netfiles', proc', refresher.network)
        BY <2>6, <2>8, <2>9, <2>10, <2>11 DEF StepOK
    <2>13. QED
        BY <1>1, <2>1, <2>4, <2>8, <2>12, DiscMoves
<1>5. CASE set_modified
    <2>1. PICK f \in FileNames :
              /\ proc.at = <<"backdate", f>> /\ DiscStep(AfterWrite(f)) /\ UNCHANGED refresher
              /\ \/ netfiles' = [netfiles EXCEPT ![f].age = "stale"] /\ UNCHANGED world
                 \/ Faulted /\ world' = Fault /\ UNCHANGED netfiles
        BY <1>5 DEF set_modified
    <2>2. proc.at[1] = "backdate" /\ proc.at[2] = f /\ proc.booting
        BY <1>1, <2>1, StepIs DEF StepOK
    <2>3. world' \in WorldType
        BY <1>1, <2>1, FaultIs
    <2>4. netfiles[f] \in Files
        BY <1>1
    <2>5. netfiles' \in [FileNames -> Files] /\ \A g \in FileNames : netfiles'[g].holds = netfiles[g].holds
        BY <1>1, <2>1, <2>4 DEF Files, Ages
    <2>6. /\ proc' \in ProcType /\ proc'.at = AfterWrite(f) /\ proc'.booting
          /\ proc'.at[1] = "ensure" /\ proc'.at[2] = f
        BY <1>3, <2>1, <2>2, AfterWriteIs
    <2>7. StepOK(netfiles', proc', refresher.network)
        BY <1>1, <1>2, <2>2, <2>5, <2>6 DEF StepOK, Whole
    <2>8. QED
        BY <1>1, <2>1, <2>3, <2>5, <2>6, <2>7, DiscMoves
<1>6. CASE refresh_nym_network_file
    <2>1. proc.at = <<"refreshed", "discovery">> /\ UNCHANGED refresher
        BY <1>6 DEF refresh_nym_network_file
    <2>2. proc.at[1] = "refreshed" /\ ~proc.booting /\ \A f \in FileNames : Whole(netfiles[f])
        BY <1>1, <1>2, <2>1, StepIs DEF StepOK
    <2>3. CASE Truncate("network", fetch_nym_network_details) /\ UNCHANGED world
        <3>1. fetch_nym_network_details \in Contents \ Torn /\ fetch_nym_network_details \in Fetched
            BY FetchIs, FetchedIs
        <3>2. QED
            BY <1>1, <1>2, <2>1, <2>2, <2>3, <3>1, DiscTruncates
    <2>4. CASE DiscStep(<<"refreshed", "network">>) /\ UNCHANGED netfiles /\ world' \in WorldType
        <3>1. proc' \in ProcType /\ proc'.at = <<"refreshed", "network">> /\ ~proc'.booting
            BY <1>2, <1>3, <2>2, <2>4, StepIs
        <3>2. proc'.at[1] = "refreshed"
            BY <1>2, <3>1, StepIs
        <3>3. StepOK(netfiles', proc', refresher.network)
            BY <1>1, <2>2, <2>4, <3>1, <3>2 DEF StepOK
        <3>4. QED
            BY <1>1, <2>1, <2>4, <3>1, <3>3, DiscMoves
    <2>5. QED
        BY <1>1, <1>6, <2>3, <2>4, FaultIs DEF refresh_nym_network_file
<1>7. CASE network_from_discovery
    <2> DEFINE network == [f \in FileNames |-> netfiles[f].holds]
    <2>1. /\ proc.at = <<"refreshed", "network">> /\ DiscStep(<<"up">>) /\ UNCHANGED <<netfiles, world>>
          /\ refresher' = [refresher EXCEPT !.network = network]
        BY <1>7 DEF network_from_discovery
    <2>2. proc.at[1] = "refreshed" /\ ~proc.booting /\ \A f \in FileNames : Whole(netfiles[f])
        BY <1>1, <1>2, <2>1, StepIs DEF StepOK
    <2>3. proc' \in ProcType /\ proc'.at = <<"up">> /\ ~proc'.booting
        BY <1>3, <2>1, <2>2, StepIs
    <2>4. network \in [FileNames -> Contents] /\ \A f \in FileNames : network[f] = netfiles[f].holds
        BY <1>1 DEF Files
    <2> HIDE DEF network
    <2>5. refresher' \in RefresherType /\ refresher'.network = network
        BY <1>1, <2>1, <2>4 DEF RefresherType
    <2>6. StepOK(netfiles', proc', refresher'.network)
        BY <2>1, <2>2, <2>3, <2>4, <2>5, StepIs DEF StepOK, Whole
    <2>7. Kept
        <3>1. ASSUME NEW f \in FileNames, refresher.network[f] \in Fetched
              PROVE  netfiles[f].holds # <<"default">>
            <4>1. netfiles[f].holds \in Fetched
                BY <1>1, <2>2, <3>1 DEF StepOK, Whole, Torn
            <4>2. QED
                BY <4>1, FetchedIs
        <3>2. QED
            BY <2>4, <2>5, <3>1 DEF Kept
    <2>8. QED
        BY <1>1, <2>1, <2>3, <2>5, <2>6, <2>7 DEF DiscInv
<1>8. CASE CheckTick
    <2>1. /\ proc.at = <<"up">> /\ refresher.due > 0 /\ refresh_discovery_file
          /\ refresher' = [refresher EXCEPT !.due = @ - 1, !.last = "recent"]
        BY <1>8 DEF CheckTick, Idling
    <2>2. refresher' \in RefresherType /\ refresher'.network = refresher.network
        <3> DEFINE due == refresher.due - 1
        <3>1. due \in 0..2
            BY <1>1, <2>1 DEF RefresherType
        <3>2. refresher' = [refresher EXCEPT !.due = due, !.last = "recent"]
            BY <1>1, <2>1 DEF RefresherType
        <3> HIDE DEF due
        <3>3. QED
            BY <1>1, <3>1, <3>2 DEF RefresherType
    <2>3. CASE UNCHANGED <<netfiles, proc>> /\ world' \in WorldType
        BY <1>1, <2>2, <2>3, DiscStays
    <2>4. CASE Truncate("discovery", fetch) /\ UNCHANGED world
        <3> DEFINE at == <<"write", "discovery", fetch>>
        <3>1. fetch \in Contents \ Torn /\ fetch \in Fetched
            BY FetchIs, FetchedIs
        <3>2. at \in DiscSteps /\ at[1] = "write" /\ at[2] = "discovery" /\ at[3] = fetch
            BY <1>2, <3>1, StepIs
        <3>3. proc' = [proc EXCEPT !.at = at]
            BY <2>4 DEF Truncate
        <3> HIDE DEF at
        <3>4. proc' \in ProcType /\ proc'.at = at /\ proc'.booting = proc.booting
            BY <1>1, <3>2, <3>3 DEF ProcType
        <3>5. netfiles' \in [FileNames -> Files]
            BY <1>1, <2>4, DefaultIs DEF Truncate, Files, Ages, Torn
        <3>6. /\ netfiles'["discovery"].holds = <<"torn">>
              /\ \A g \in FileNames \ {"discovery"} : netfiles'[g] = netfiles[g]
            <4> DEFINE x == [holds |-> <<"torn">>, age |-> "fresh"]
            <4>1. netfiles' = [netfiles EXCEPT !["discovery"] = x] /\ x.holds = <<"torn">>
                BY <2>4 DEF Truncate
            <4> HIDE DEF x
            <4>2. QED
                BY <1>1, <4>1 DEF FileNames
        <3>7. ~proc.booting /\ \A f \in FileNames : Whole(netfiles[f])
            BY <1>1, <2>1, StepIs DEF StepOK
        <3>8. \A g \in FileNames :
                /\ refresher.network[g] \notin Torn
                /\ refresher.network[g] \in Fetched => netfiles'[g].holds \in Fetched \cup {<<"torn">>}
            BY <1>1, <2>1, <3>6, <3>7, StepIs DEF StepOK
        <3>9. StepOK(netfiles', proc', refresher.network)
            BY <3>1, <3>2, <3>4, <3>6, <3>7, <3>8 DEF StepOK
        <3>10. QED
            BY <1>1, <2>2, <2>4, <3>4, <3>5, <3>9, DiscMoves
    <2>5. QED
        BY <1>1, <2>1, <2>3, <2>4, FaultIs DEF refresh_discovery_file
<1>9. QED
    BY <1>4, <1>5, <1>6, <1>7, <1>8 DEF CheckSteps

\* Commands, time, the API and crashes.
LEMMA OutsideSteps ==
    ASSUME DiscInv,
           \/ NetConnectivityChanges \/ HourPasses \/ ClockSetBack \/ ClockCorrected \/ ApiChanges \/ KillDaemon
           \/ \E b \in BOOLEAN : Pause(b) \/ SetIdle(b) \/ UseResolverOverrides(b)
    PROVE  DiscInv' /\ Kept
<1>1. /\ netfiles \in [FileNames -> Files] /\ proc \in ProcType /\ refresher \in RefresherType
      /\ world \in WorldType /\ StepOK(netfiles, proc, refresher.network)
    BY DEF DiscInv
<1> DEFINE commands == world.commands + 1
<1>a. ASSUME world.commands < DiscCommands PROVE commands \in 0..DiscCommands
    BY <1>1, <1>a, DiscAssumption DEF WorldType
<1> HIDE DEF commands
<1>2. ASSUME Command PROVE world' \in WorldType
    <2>1. world' = [world EXCEPT !.commands = commands] /\ commands \in 0..DiscCommands
        BY <1>1, <1>2, <1>a DEF Command, WorldType, commands
    <2>2. QED
        BY <1>1, <2>1 DEF WorldType
<1>3. CASE NetConnectivityChanges
    <2>1. world' \in WorldType
        <3>1. /\ world' = [world EXCEPT !.commands = commands, !.online = ~world.online]
              /\ commands \in 0..DiscCommands
            BY <1>1, <1>3, <1>a DEF NetConnectivityChanges, WorldType, commands
        <3>2. (~world.online) \in BOOLEAN
            OBVIOUS
        <3>3. QED
            BY <1>1, <3>1, <3>2 DEF WorldType
    <2>2. QED
        <3>1. UNCHANGED <<netfiles, proc, refresher>>
            BY <1>3 DEF NetConnectivityChanges
        <3>2. QED
            BY <1>1, <2>1, <3>1, DiscStays
<1>4. CASE HourPasses
    <2>1. refresher' \in RefresherType /\ refresher'.network = refresher.network
        <3> DEFINE due == IF refresher.due < 2 THEN refresher.due + 1 ELSE refresher.due
                   last == IF refresher.last = "recent" THEN "old" ELSE refresher.last
        <3>1. due \in 0..2 /\ last \in {"never", "recent", "old"}
            BY <1>1 DEF RefresherType
        <3>2. refresher' = [refresher EXCEPT !.due = due, !.last = last]
            BY <1>4 DEF HourPasses
        <3> HIDE DEF due, last
        <3>3. QED
            BY <1>1, <3>1, <3>2 DEF RefresherType
    <2>2. ASSUME NEW f \in FileNames
          PROVE  netfiles'[f] \in Files /\ netfiles'[f].holds = netfiles[f].holds
        BY <1>1, <1>4 DEF HourPasses, Files, Ages
    <2>3. netfiles' \in [FileNames -> Files]
        BY <1>4, <2>2 DEF HourPasses
    <2>4. UNCHANGED <<proc, world>>
        BY <1>4 DEF HourPasses
    <2>5. QED
        BY <1>1, <2>1, <2>2, <2>3, <2>4, DiscStays
<1>5. CASE ClockSetBack
    <2>1. ASSUME NEW f \in FileNames
          PROVE  netfiles'[f] \in Files /\ netfiles'[f].holds = netfiles[f].holds
        BY <1>1, <1>5 DEF ClockSetBack, Files, Ages
    <2>2. netfiles' \in [FileNames -> Files]
        BY <1>5, <2>1 DEF ClockSetBack
    <2>3. UNCHANGED <<proc, refresher>> /\ world' \in WorldType
        BY <1>5, FaultIs DEF ClockSetBack
    <2>4. QED
        BY <1>1, <2>1, <2>2, <2>3, DiscStays
<1>6. CASE ClockCorrected
    <2>1. PICK age \in {"fresh", "stale"} :
              netfiles' = [f \in FileNames |->
                 IF netfiles[f].age = "future" THEN [netfiles[f] EXCEPT !.age = age] ELSE netfiles[f]]
        BY <1>6 DEF ClockCorrected
    <2>2. ASSUME NEW f \in FileNames
          PROVE  netfiles'[f] \in Files /\ netfiles'[f].holds = netfiles[f].holds
        BY <1>1, <2>1 DEF Files, Ages
    <2>3. netfiles' \in [FileNames -> Files]
        BY <2>1, <2>2
    <2>4. UNCHANGED <<proc, refresher, world>>
        BY <1>6 DEF ClockCorrected
    <2>5. QED
        BY <1>1, <2>2, <2>3, <2>4, DiscStays
<1>7. CASE ApiChanges
    <2>1. world' \in WorldType
        BY <1>1, <1>7, DiscAssumption DEF ApiChanges, WorldType
    <2>2. QED
        BY <1>1, <1>7, <2>1, DiscStays DEF ApiChanges
<1>8. CASE KillDaemon
    <2>1. proc' \in ProcType /\ proc'.at = <<"down">>
        BY <1>1, <1>8, StepIs DEF KillDaemon, ProcType
    <2>2. UNCHANGED <<netfiles, refresher>> /\ world' \in WorldType
        BY <1>8, FaultIs DEF KillDaemon
    <2>3. StepOK(netfiles', proc', refresher.network)
        BY <2>1, StepIs DEF StepOK
    <2>4. QED
        BY <1>1, <2>1, <2>2, <2>3, DiscMoves
<1>9. ASSUME NEW b \in BOOLEAN, Pause(b) \/ SetIdle(b) \/ UseResolverOverrides(b)
      PROVE  DiscInv' /\ Kept
    <2>1. Command /\ UNCHANGED <<netfiles, proc>>
        BY <1>9 DEF Pause, SetIdle, UseResolverOverrides
    <2>2. refresher' \in RefresherType /\ refresher'.network = refresher.network
        <3>1. CASE refresher' = [refresher EXCEPT !.paused = b]
            BY <1>1, <3>1 DEF RefresherType
        <3>2. ASSUME NEW due \in 0..2, refresher' = [refresher EXCEPT !.idle = b, !.due = due]
              PROVE  refresher' \in RefresherType /\ refresher'.network = refresher.network
            BY <1>1, <3>2 DEF RefresherType
        <3>3. ASSUME NEW o \in BOOLEAN, refresher' = [refresher EXCEPT !.overridden = o]
              PROVE  refresher' \in RefresherType /\ refresher'.network = refresher.network
            BY <1>1, <3>3 DEF RefresherType
        <3>4. CASE SetIdle(b)
            <4> DEFINE due == IF b THEN refresher.due ELSE IF refresher.last = "recent" THEN 0 ELSE 1
            <4>1. due \in 0..2
                BY <1>1 DEF RefresherType
            <4>2. refresher' = [refresher EXCEPT !.idle = b, !.due = due]
                BY <3>4 DEF SetIdle
            <4> HIDE DEF due
            <4>3. QED
                BY <3>2, <4>1, <4>2
        <3>5. CASE UseResolverOverrides(b)
            <4>1. PICK built \in BOOLEAN :
                      refresher' = [refresher EXCEPT !.overridden = IF b /\ built THEN TRUE ELSE @]
                BY <3>5 DEF UseResolverOverrides
            <4> DEFINE o == IF b /\ built THEN TRUE ELSE refresher.overridden
            <4>2. o \in BOOLEAN /\ refresher' = [refresher EXCEPT !.overridden = o]
                BY <1>1, <4>1 DEF RefresherType
            <4> HIDE DEF o
            <4>3. QED
                BY <3>3, <4>2
        <3>6. QED
            BY <1>9, <3>1, <3>4, <3>5 DEF Pause
    <2>3. QED
        BY <1>1, <1>2, <2>1, <2>2, DiscStays
<1>10. QED
    BY <1>3, <1>4, <1>5, <1>6, <1>7, <1>8, <1>9

\* The invariant holds before the first start, with no file on the disk.
LEMMA DiscInvInit == DiscInit => DiscInv
<1> SUFFICES ASSUME DiscInit PROVE DiscInv
    OBVIOUS
<1>1. netfiles \in [FileNames -> Files]
    BY DefaultIs DEF DiscInit, Files, Ages, Torn
<1>2. proc \in ProcType /\ proc.at = <<"down">>
    BY StepIs DEF DiscInit, ProcType
<1>3. refresher \in RefresherType
    BY DefaultIs DEF DiscInit, RefresherType, Torn
<1>4. world \in WorldType
    BY DiscAssumption DEF DiscInit, WorldType
<1>5. StepOK(netfiles, proc, refresher.network)
    BY <1>2, StepIs DEF StepOK
<1>6. QED
    BY <1>1, <1>2, <1>3, <1>4, <1>5 DEF DiscInv

\* Every step keeps it.
LEMMA DiscInvNext ==
    ASSUME DiscInv, [DiscNext]_discVars
    PROVE  DiscInv' /\ [Kept]_discVars
<1>1. CASE UNCHANGED discVars
    BY <1>1 DEF discVars, DiscInv
<1>2. CASE DiscNext
    BY <1>2, BootSteps, CheckStepsKeep, OutsideSteps DEF DiscNext
<1>3. QED
    BY <1>1, <1>2

\* A network the running daemon fetched is never given up for the compiled-in
\* one (DiscoveryRefresher::run), for every number of versions and faults.
THEOREM FetchedAlwaysKept == DiscSpec => FetchedIsKept
<1>1. FetchedIsKept <=> [][Kept]_discVars
    <2>1. Kept <=> \A f \in FileNames :
            /\ refresher.network[f] \in {<<"fetched", v>> : v \in 1..DiscVersions}
            /\ ~proc.booting /\ proc.at # <<"down">>
            => refresher'.network[f] # <<"default">>
        BY DEF Kept, Fetched
    <2>2. QED
        BY <2>1, PTL DEF FetchedIsKept
<1>2. QED
    BY <1>1, DiscInvInit, DiscInvNext, PTL DEF DiscSpec

\* A mainnet daemon never fails to start, whatever a crash left of the files,
\* and a daemon that is up uses two whole files (both ensure_exists).
THEOREM MainnetAlwaysStarts == DiscSpec => [](DiscTypeOK /\ MainnetStarts)
<1>1. DiscInv => DiscTypeOK /\ MainnetStarts
    <2> SUFFICES ASSUME DiscInv PROVE DiscTypeOK /\ MainnetStarts
        OBVIOUS
    <2>1. DiscTypeOK
        BY DEF DiscInv, DiscTypeOK, Files, ProcType, DiscSteps, RefresherType, WorldType
    <2>2. MainnetStarts
        BY StepIs DEF DiscInv, StepOK, MainnetStarts, Torn
    <2>3. QED
        BY <2>1, <2>2
<1>2. QED
    BY <1>1, DiscInvInit, DiscInvNext, PTL DEF DiscSpec
=============================================================================
