----------------------------- MODULE Free5GCCore -----------------------------
(***************************************************************************)
(* The legacy Free5GC blueprint (blueprint_Free5GC_K8s.py): how its core  *)
(* configuration (the running_free5gc_conf of AMF, SMF, N3IWF and NSSF)   *)
(* and the UPF dnnList of self.conf evolve under core_nsd (day 0),        *)
(* init_day2_conf and the add_slice, del_slice, add_tac and del_tac day-2 *)
(* handlers.  The NF-editing helpers (amf_set_configuration, ...) are     *)
(* those of free5gc_core_configurator.py, which carries the methods the   *)
(* blueprint calls on itself.                                             *)
(*                                                                         *)
(* One PLMN.  A slice (sst, sd) is a model value of Slices, a DNN a model *)
(* value of Dnns, an area (TAC) one of Tacs.  Python lists are sequences, *)
(* since the code's removals depend on positions.  The legacy engine runs *)
(* one operation of a blueprint at a time, so an operation is one step.   *)
(***************************************************************************)
EXTENDS Naturals, Sequences, SequencesExt, FiniteSets

CONSTANTS
    Slices, Dnns, Tacs,
    UpfTacs,     \* areas with a UPF in conf["config"]["upf_nodes"]
    LinkedTacs,  \* areas with a UPF and a gNB nb_wan_ip: smf_add_upf finds two nodes
    MaxDay0,     \* most slices in the creation request
    MaxOps,      \* bound on day-2 operations
    NoTa         \* no entry for the area in the list

ASSUME LinkedTacs \subseteq UpfTacs /\ UpfTacs \subseteq Tacs

\* A slice of a request with its dnnList (distinct DNNs, in request order).
DnnLists == {s \in BoundedSeq(Dnns, Cardinality(Dnns)) : s # <<>> /\ IsInjective(s)}
Descs == [slice : Slices, dnns : DnnLists]
SliceIds(c) == [i \in DOMAIN c |-> c[i].slice]
ConfDnns(c) == FlattenSeq([i \in DOMAIN c |-> c[i].dnns])
\* The slices of the creation request's area, each slice once.
Day0Confs == {c \in BoundedSeq(Descs, MaxDay0) : IsInjective(SliceIds(c))}
\* add_tac_conf builds the set {sd, sst, dnnList} for every slice already
\* collected: the first slice of the area passes, the second raises.
AddTacSlices == 0..2

VARIABLES
    phase,          \* "new", "day0" (core_nsd ran), "ready" (init day 2 ran)
    day0Tac,        \* the area of the creation request
    day0,           \* the slices of that area in the creation request
    amfSlices,      \* AMF plmnSupportList[plmn].snssaiList
    amfDnns,        \* AMF supportDnnList
    amfTacs,        \* AMF supportTaiList
    smfInfos,       \* SMF snssaiInfos: sequence of [sNssai, dnns]
    upLinked,       \* areas whose UPF-{tac}/gNB-{tac} upNodes and link are in SMF
    n3iwf,          \* N3IWF SupportedTAList: per area the TAISliceSupportList
    nssfSupported,  \* NSSF supportedNssaiInPlmnList[plmn] (and mappingOfSnssai)
    nssfNsi,        \* NSSF nsiList, one entry per slice per nssf_set call
    nssfTa,         \* NSSF taList (and amfList) per area
    upfDnns,        \* conf upf_nodes[tac].dnnList
    err,            \* the last operation raised
    ops,            \* day-2 operations so far
    lastDel         \* slice removed by the last del_slice, or NoTa

fvars == <<phase, day0Tac, day0, amfSlices, amfDnns, amfTacs, smfInfos, upLinked,
           n3iwf, nssfSupported, nssfNsi, nssfTa, upfDnns, err, ops, lastDel>>
amfVars == <<amfSlices, amfDnns, amfTacs>>
nssfVars == <<nssfSupported, nssfNsi, nssfTa>>

-----------------------------------------------------------------------------
(* List helpers with the semantics of the Python code.                    *)

\* `if x not in l: l.append(x)`
AddIfAbsent(l, x) == IF x \in Range(l) THEN l ELSE Append(l, x)
AddAll(l, xs) == FoldLeft(AddIfAbsent, l, xs)

\* `for i, x in enumerate(l): if x in S: l.pop(i)`: after a pop the element
\* that moved into position i is never looked at.
RECURSIVE PopEnum(_, _, _)
PopEnum(l, i, S) ==
    IF i > Len(l) THEN l
    ELSE IF l[i] \in S THEN PopEnum(RemoveAt(l, i), i + 1, S)
    ELSE PopEnum(l, i + 1, S)
EnumPop(l, S) == PopEnum(l, 1, S)

\* A per-area list: created with the request's slices, else extended.
AddToTa(f, t, ss) ==
    [f EXCEPT ![t] = IF @ = NoTa THEN ss ELSE AddAll(@, ss)]

-----------------------------------------------------------------------------
(* The NF-editing helpers (free5gc_core_configurator.py).                 *)

SmfSlices == {smfInfos[i].sNssai : i \in DOMAIN smfInfos}

\* smf_set_configuration(dnnList=ds, sliceList=[s]): new DNNs are added to
\* the slice's dnnInfos, or a new snssaiInfos entry is appended.
SmfSetInfos(infos, s, ds) ==
    IF \E i \in DOMAIN infos : infos[i].sNssai = s
    THEN LET i == CHOOSE j \in DOMAIN infos : infos[j].sNssai = s
         IN [infos EXCEPT ![i].dnns = AddAll(@, ds)]
    ELSE Append(infos, [sNssai |-> s, dnns |-> ds])

\* smf_unset_configuration(dnnList=ds, sliceList=[s]) on snssaiInfos: the
\* slice's entry is popped (and the next entry skipped); from every other
\* entry the DNNs named in ds are popped.
RECURSIVE SmfUnsetFrom(_, _, _, _)
SmfUnsetFrom(infos, i, s, ds) ==
    IF i > Len(infos) THEN infos
    ELSE IF infos[i].sNssai = s
         THEN SmfUnsetFrom(RemoveAt(infos, i), i + 1, s, ds)
         ELSE SmfUnsetFrom([infos EXCEPT ![i].dnns =
                               EnumPop(@, Range(ds))],
                           i + 1, s, ds)
SmfUnsetInfos(infos, s, ds) == SmfUnsetFrom(infos, 1, s, ds)

\* Mutant: snssaiList appended without the `item not in` check.
AmfSetAppend(ts, ss, ds) ==
    /\ amfTacs' = amfTacs \cup ts
    /\ amfSlices' = amfSlices \o ss
    /\ amfDnns' = AddAll(amfDnns, ds)

\* amf_set_configuration(supportedTacList=ts, snssaiList=ss, dnnList=ds).
AmfSet(ts, ss, ds) ==
    /\ amfTacs' = amfTacs \cup ts
    /\ amfSlices' = AddAll(amfSlices, ss)
    /\ amfDnns' = AddAll(amfDnns, ds)

\* amf_unset_configuration(snssaiList=[s], dnnList=ds): enumerate-pop of
\* the slice, and the first occurrence of each DNN leaves supportDnnList.
AmfUnset(s, ds) ==
    /\ amfSlices' = EnumPop(amfSlices, {s})
    /\ amfDnns' = FoldLeft(RemoveFirst, amfDnns, ds)
    /\ UNCHANGED amfTacs

\* Mutant: supportedNssaiInPlmnList only written when the PLMN item is new.
NssfSetNewOnly(t, ss) ==
    /\ nssfSupported' = IF nssfSupported = <<>> THEN ss ELSE nssfSupported
    /\ nssfNsi' = nssfNsi \o ss
    /\ nssfTa' = AddToTa(nssfTa, t, ss)

\* nssf_set_configuration(sliceList=ss, tac=t).
NssfSet(t, ss) ==
    /\ nssfSupported' = AddAll(nssfSupported, ss)
    /\ nssfNsi' = nssfNsi \o ss
    /\ nssfTa' = AddToTa(nssfTa, t, ss)
\* n3iwf_unset_configuration / the taList and amfList loops of
\* nssf_unset_configuration: enumerate-pop in every area.
PopFromTas(f, s) ==
    [t \in Tacs |-> IF f[t] = NoTa THEN NoTa ELSE EnumPop(f[t], {s})]

\* Mutant: the link is added without the two-node check.
LinkUpfUnchecked(t) == upLinked' = upLinked \cup {t}

\* nssf_unset_configuration(sliceList=[s]): supportedSnssaiList pops the
\* first match and breaks, amfList and taList enumerate-pop; nsiList is
\* left as it is.
NssfUnset(s) ==
    /\ nssfSupported' = RemoveFirst(nssfSupported, s)
    /\ nssfTa' = PopFromTas(nssfTa, s)
    /\ UNCHANGED nssfNsi

\* smf_unset_configuration(tacList=[{"id": t}]): the upNodes loop
\* enumerates a dict, i.e. its keys, and calls .keys() on a str.
SmfDelUpfRaises == upLinked # {}

\* smf_add_upf(tac=t): the UPF-{t} and gNB-{t} upNodes and their link; a
\* ValueError unless both exist.
LinkUpf(t) == t \in LinkedTacs /\ upLinked' = upLinked \cup {t}

\* upf["dnnList"].extend(ds) on the UPF of area t, if there is one.
ExtendUpf(t, ds) ==
    upfDnns' = IF t \in UpfTacs THEN [upfDnns EXCEPT ![t] = @ \o ds] ELSE upfDnns

-----------------------------------------------------------------------------
(* The blueprint's handlers.                                              *)

\* After __init__ and the *_reset_configuration calls.
Init ==
    /\ phase = "new"
    /\ day0Tac = NoTa
    /\ day0 = <<>>
    /\ amfSlices = <<>> /\ amfDnns = <<>> /\ amfTacs = {}
    /\ smfInfos = <<>>
    /\ upLinked = {}
    /\ n3iwf = [t \in Tacs |-> NoTa]
    /\ nssfSupported = <<>> /\ nssfNsi = <<>> /\ nssfTa = [t \in Tacs |-> NoTa]
    /\ upfDnns = [t \in UpfTacs |-> <<>>]
    /\ err = FALSE
    /\ ops = 0
    /\ lastDel = NoTa

\* core_nsd: one smf_set per slice, then n3iwf_set and nssf_set for the
\* area's slices, then amf_set with the area, all slices and all DNNs.
CoreNsd(t, c) ==
    /\ phase = "new"
    /\ phase' = "day0"
    /\ day0Tac' = t
    /\ day0' = c
    /\ smfInfos' = FoldLeft(LAMBDA l, x : SmfSetInfos(l, x.slice, x.dnns), smfInfos, c)
    /\ \/ c = <<>> /\ UNCHANGED <<n3iwf, nssfVars>>
       \/ c # <<>> /\ n3iwf' = AddToTa(n3iwf, t, SliceIds(c))
                   /\ NssfSet(t, SliceIds(c))
    /\ AmfSet({t}, SliceIds(c), ConfDnns(c))
    /\ UNCHANGED <<upLinked, upfDnns, err, ops, lastDel>>

\* init_day2_conf: smf_add_upf for every slice of the area (the first
\* raises if the area has no UPF/gNB pair), then the area's DNNs are
\* appended to its UPF.
InitDay2 ==
    /\ phase = "day0"
    /\ phase' = "ready"
    /\ \/ day0 = <<>> /\ err' = FALSE /\ UNCHANGED <<upLinked, upfDnns>>
       \/ day0 # <<>> /\ LinkUpf(day0Tac) /\ err' = FALSE
                      /\ ExtendUpf(day0Tac, AddAll(<<>>, ConfDnns(day0)))
       \/ day0 # <<>> /\ day0Tac \notin LinkedTacs /\ err' = TRUE
                      /\ UNCHANGED <<upLinked, upfDnns>>
    /\ UNCHANGED <<day0Tac, day0, amfVars, smfInfos, n3iwf, nssfVars, ops, lastDel>>

Day2(t) == phase = "ready" /\ ops < MaxOps /\ ops' = ops + 1 /\ UNCHANGED <<phase, day0Tac, day0>>

\* add_slice for one slice d in area t: smf_set, the UPF's dnnList,
\* n3iwf_set, nssf_set, smf_add_upf, and only then amf_set.
AddSlice(t, d) ==
    /\ Day2(t)
    /\ smfInfos' = SmfSetInfos(smfInfos, d.slice, d.dnns)
    /\ ExtendUpf(t, d.dnns)
    /\ n3iwf' = AddToTa(n3iwf, t, <<d.slice>>)
    /\ NssfSet(t, <<d.slice>>)
    /\ \/ LinkUpf(t) /\ AmfSet({t}, <<d.slice>>, d.dnns) /\ err' = FALSE
       \/ t \notin LinkedTacs /\ err' = TRUE /\ UNCHANGED <<upLinked, amfVars>>
    /\ lastDel' = NoTa

\* del_slice for one slice d in area t: amf_unset, smf_unset, n3iwf_unset,
\* nssf_unset (nsiList untouched), then the DNNs are popped from the UPF.
DelSlice(t, d) ==
    /\ Day2(t)
    /\ AmfUnset(d.slice, d.dnns)
    /\ smfInfos' = SmfUnsetInfos(smfInfos, d.slice, d.dnns)
    /\ n3iwf' = PopFromTas(n3iwf, d.slice)
    /\ NssfUnset(d.slice)
    /\ upfDnns' = IF t \in UpfTacs
                  THEN [upfDnns EXCEPT ![t] = EnumPop(@, Range(d.dnns))]
                  ELSE upfDnns
    /\ err' = FALSE
    /\ lastDel' = d.slice
    /\ UNCHANGED upLinked

\* add_tac_conf for area t with n slices: smf_add_upf per slice; the
\* add_slice message it builds has no "areas" and changes nothing.
AddTac(t, n) ==
    /\ Day2(t)
    /\ \/ n = 0 /\ err' = FALSE /\ UNCHANGED upLinked
       \/ n > 0 /\ LinkUpf(t) /\ err' = (n > 1)
       \/ n > 0 /\ t \notin LinkedTacs /\ err' = TRUE /\ UNCHANGED upLinked
    /\ lastDel' = NoTa
    /\ UNCHANGED <<amfVars, smfInfos, n3iwf, nssfVars, upfDnns>>

\* del_tac_conf: smf_del_upf raises once any upNode exists; the links loop
\* never matches, and the del_slice message it builds has no "areas".
DelTac(t) ==
    /\ Day2(t)
    /\ err' = SmfDelUpfRaises
    /\ lastDel' = NoTa
    /\ UNCHANGED <<amfVars, smfInfos, upLinked, n3iwf, nssfVars, upfDnns>>

Next ==
    \/ \E t \in Tacs, c \in Day0Confs : CoreNsd(t, c)
    \/ InitDay2
    \/ \E t \in Tacs, d \in Descs : AddSlice(t, d) \/ DelSlice(t, d)
    \/ \E t \in Tacs, n \in AddTacSlices : AddTac(t, n)
    \/ \E t \in Tacs : DelTac(t)

Spec == Init /\ [][Next]_fvars

-----------------------------------------------------------------------------
(* Properties.                                                            *)

TaLists == Seq(Slices) \cup {NoTa}

F5TypeOK ==
    /\ phase \in {"new", "day0", "ready"}
    /\ day0Tac \in Tacs \cup {NoTa} /\ day0 \in Day0Confs
    /\ amfSlices \in Seq(Slices) /\ amfDnns \in Seq(Dnns) /\ amfTacs \subseteq Tacs
    /\ smfInfos \in Seq([sNssai : Slices, dnns : Seq(Dnns)])
    /\ upLinked \subseteq LinkedTacs
    /\ n3iwf \in [Tacs -> TaLists] /\ nssfTa \in [Tacs -> TaLists]
    /\ nssfSupported \in Seq(Slices) /\ nssfNsi \in Seq(Slices)
    /\ upfDnns \in [UpfTacs -> Seq(Dnns)]
    /\ err \in BOOLEAN /\ ops \in 0..MaxOps /\ lastDel \in Slices \cup {NoTa}

\* Every slice the NSSF, N3IWF or SMF configuration names.
CoreSlices ==
    SmfSlices \cup Range(nssfSupported)
    \cup UNION {Range(n3iwf[t]) \cup Range(nssfTa[t]) : t \in {x \in Tacs : n3iwf[x] # NoTa /\ nssfTa[x] # NoTa}}

\* After del_slice of a slice, no NF configuration lists it any more: not
\* the AMF's snssaiList, the SMF's snssaiInfos, the N3IWF's
\* TAISliceSupportList nor the NSSF's lists (nsiList aside).  It holds
\* because every *_set_configuration adds a slice only if absent, so the
\* enumerate-pop loops of the unset helpers meet it once.
DeletedSliceGone ==
    lastDel # NoTa =>
        /\ lastDel \notin Range(amfSlices) \cup SmfSlices \cup Range(nssfSupported)
        /\ \A t \in Tacs :
              /\ n3iwf[t] # NoTa => lastDel \notin Range(n3iwf[t])
              /\ nssfTa[t] # NoTa => lastDel \notin Range(nssfTa[t])

\* The AMF advertises only slices that the SMF has session information
\* for and that the NSSF supports: add_slice calls amf_set last, after
\* smf_set, nssf_set and the smf_add_upf that may raise, and del_slice
\* unsets the AMF first.
AmfBackedBySmf ==
    Range(amfSlices) \subseteq SmfSlices \cap Range(nssfSupported)

\* Deleting one slice takes nothing from another slice the AMF
\* advertises: the SMF keeps every DNN it listed for that slice, and the
\* AMF keeps advertising each of them.  (del_slice passes the deleted
\* slice's dnnList to amf_unset_configuration, which drops the DNNs from
\* supportDnnList, and to smf_unset_configuration, which pops them from the
\* dnnInfos of every other slice.)
SliceIsolation ==
    [][lastDel' # NoTa =>
        \A i \in DOMAIN smfInfos :
            LET s == smfInfos[i].sNssai
                ds == Range(smfInfos[i].dnns)
            IN  s # lastDel' /\ s \in Range(amfSlices) =>
                    /\ \E j \in DOMAIN smfInfos' :
                          smfInfos'[j].sNssai = s /\ ds \subseteq Range(smfInfos'[j].dnns)
                    /\ ds \cap Range(amfDnns) \subseteq Range(amfDnns')]_fvars
====
