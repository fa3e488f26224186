------------------------ MODULE ConfigurationProofs ------------------------
(***************************************************************************)
(* Theorems about Configuration, for any ids, filters and numbers of       *)
(* folders and replacements.                                               *)
(***************************************************************************)
EXTENDS Configuration, SubsequencesProofs, TLAPS

\* A folder as its author wrote it, and one that was prepared any number of times: its
\* filters begin with its own and the global ones and add nothing to them, and rsync is
\* given all of them.
AnyFolder == Folder({"yes", "no", ""})
IsRaw(f) == f.filter = f.own /\ f.opt = {} /\ f.excludes = {}
IsGrown(f) ==
  /\ Len(f.own \o Globals) <= Len(f.filter)
  /\ \A k \in 1..Len(f.own \o Globals) : f.filter[k] = (f.own \o Globals)[k]
  /\ \A k \in 1..Len(f.filter) : \E j \in 1..Len(f.own \o Globals) : f.filter[k] = (f.own \o Globals)[j]
  /\ f.opt = ForRsync(ToSet(f.own \o Globals) \cap Includes)
  /\ f.excludes = ForRsync(ToSet(f.own \o Globals) \ Includes)

Written == {f \in AnyFolder : IsRaw(f) \/ IsGrown(f)}
Grown == {f \in Prepared : IsGrown(f)}

IsConfig(c, folders) ==
  /\ c = [folders |-> c.folders, ignored |-> c.ignored]
  /\ c.folders \in Seq(folders) /\ c.ignored \in Seq(Ids)

\* The inductive invariant: whatever is in use was prepared, whatever is around was
\* prepared or is as it was written.
CInv ==
  /\ IsConfig(cfg, Grown) /\ IsConfig(disk, Written)
  /\ copy # NoCopy => IsConfig(copy, Written)
  /\ saving # NoSave => saving \in Seq(Grown)

\* Sequences: the items of a concatenation, and of sequences that have the same.
LEMMA ConcatItems ==
  ASSUME NEW S, NEW s \in Seq(S), NEW t \in Seq(S)
  PROVE  /\ s \o t \in Seq(S) /\ Len(s \o t) = Len(s) + Len(t)
         /\ \A k \in 1..Len(s) : (s \o t)[k] = s[k]
         /\ \A k \in 1..Len(t) : (s \o t)[Len(s) + k] = t[k]
         /\ \A k \in 1..(Len(s) + Len(t)) :
              k \notin 1..Len(s) => k - Len(s) \in 1..Len(t) /\ (s \o t)[k] = t[k - Len(s)]
  OBVIOUS

LEMMA ToSetOfSeq ==
  ASSUME NEW S, NEW s \in Seq(S)
  PROVE  /\ ToSet(s) \subseteq S
         /\ \A x : x \in ToSet(s) <=> \E k \in 1..Len(s) : s[k] = x
  BY DEF ToSet

LEMMA GrownIsWritten == Grown \subseteq Written
  BY DEF Grown, Written, AnyFolder, Prepared, Folder

\* prepare may be called any number of times: what it makes of a folder as it was written,
\* and of one that was prepared before, is a folder with the same id, own filters and
\* meaning (folderconfiguration.go:101-176).
LEMMA PrepareKeepsId ==
  ASSUME NEW f \in Written
  PROVE  /\ Prepare(f).id = f.id /\ Prepare(f).own = f.own
         /\ Prepare(f).filter = f.filter \o Globals
         /\ Prepare(f).opt = f.opt \cup ForRsync(ToSet(f.filter \o Globals) \cap Includes)
         /\ Prepare(f).excludes = IF f.filter \o Globals = <<>> THEN f.excludes
                                  ELSE ForRsync(ToSet(f.filter \o Globals) \ Includes)
         /\ Prepare(f) \in Folder({"yes", "no"})
  <1>1. f \in AnyFolder
    BY DEF Written
  <1>2. f.own \in Seq(Items) /\ f.filter \in Seq(Items) /\ Globals \in Seq(Items)
        /\ f.opt \in SUBSET ForRsync(Items) /\ f.excludes \in SUBSET ForRsync(Items) /\ f.id \in Ids
        /\ f.monitor \in {"yes", "no", ""}
    BY <1>1, ItemsAssumption DEF AnyFolder, Folder
  <1>3. f.filter \o Globals \in Seq(Items) /\ ToSet(f.filter \o Globals) \subseteq Items
    <2>1. f.filter \o Globals \in Seq(Items)
      BY <1>2, ConcatItems
    <2> QED BY <2>1, ToSetOfSeq
  <1> DEFINE all == f.filter \o Globals
             opt == f.opt \cup ForRsync(ToSet(all) \cap Includes)
             excludes == IF all = <<>> THEN f.excludes ELSE ForRsync(ToSet(all) \ Includes)
             monitor == IF f.monitor = "" THEN "yes" ELSE f.monitor
  <1>4. /\ opt \in SUBSET ForRsync(Items) /\ excludes \in SUBSET ForRsync(Items)
        /\ monitor \in {"yes", "no"}
    BY <1>2, <1>3 DEF ForRsync
  <1>5. f = [id |-> f.id, own |-> f.own, monitor |-> f.monitor,
             filter |-> f.filter, opt |-> f.opt, excludes |-> f.excludes]
    BY <1>1 DEF AnyFolder, Folder
  <1>6. Prepare(f) = [f EXCEPT !.monitor = monitor, !.filter = all, !.opt = opt, !.excludes = excludes]
    BY DEF Prepare
  <1> HIDE DEF all, opt, excludes, monitor
  <1>7. Prepare(f) = [id |-> f.id, own |-> f.own, monitor |-> monitor,
                      filter |-> all, opt |-> opt, excludes |-> excludes]
    BY <1>5, <1>6
  <1>8. /\ Prepare(f).id = f.id /\ Prepare(f).own = f.own
        /\ Prepare(f).filter = all /\ Prepare(f).opt = opt /\ Prepare(f).excludes = excludes
    BY <1>7
  <1>9. Prepare(f) \in Folder({"yes", "no"})
    <2>1. all \in Seq(Items)
      BY <1>3 DEF all
    <2>2. [id |-> f.id, own |-> f.own, monitor |-> monitor,
           filter |-> all, opt |-> opt, excludes |-> excludes]
            \in [id : Ids, own : Seq(Items), monitor : {"yes", "no"},
                 filter : Seq(Items), opt : SUBSET ForRsync(Items), excludes : SUBSET ForRsync(Items)]
      BY <1>2, <1>4, <2>1
    <2> QED BY <1>7, <2>2 DEF Folder
  <1> QED
    BY <1>8, <1>9 DEF all, opt, excludes

LEMMA PrepareGrows ==
  ASSUME NEW f \in Written
  PROVE  Prepare(f) \in Grown
  <1> DEFINE first == f.own \o Globals
             all == f.filter \o Globals
             g == Prepare(f)
  <1>1. /\ f \in AnyFolder /\ g \in Prepared
        /\ g.id = f.id /\ g.own = f.own /\ g.filter = all
        /\ g.opt = f.opt \cup ForRsync(ToSet(all) \cap Includes)
    BY PrepareKeepsId DEF Written, Prepared
  <1>2. /\ f.own \in Seq(Items) /\ f.filter \in Seq(Items) /\ Globals \in Seq(Items)
        /\ first \in Seq(Items) /\ all \in Seq(Items)
        /\ Len(first) = Len(f.own) + Len(Globals) /\ Len(all) = Len(f.filter) + Len(Globals)
    <2>1. f.own \in Seq(Items) /\ f.filter \in Seq(Items) /\ Globals \in Seq(Items)
      BY <1>1, ItemsAssumption DEF AnyFolder, Folder
    <2> QED BY <2>1, ConcatItems
  <1>3. g.excludes = IF all = <<>> THEN f.excludes ELSE ForRsync(ToSet(all) \ Includes)
    BY PrepareKeepsId
  <1>4. Len(first) <= Len(all) /\ \A k \in 1..Len(first) : all[k] = first[k]
    <2>1. CASE IsRaw(f)
      BY <2>1, <1>2 DEF IsRaw
    <2>2. CASE IsGrown(f)
      <3>1. /\ Len(first) <= Len(f.filter)
            /\ \A k \in 1..Len(first) : f.filter[k] = first[k]
        BY <2>2 DEF IsGrown
      <3>2. \A k \in 1..Len(f.filter) : all[k] = f.filter[k]
        BY <1>2, ConcatItems
      <3> HIDE DEF first, all
      <3> QED BY <3>1, <3>2, <1>2
    <2> QED BY <2>1, <2>2 DEF Written
  <1>5. \A k \in 1..Len(all) : \E j \in 1..Len(first) : all[k] = first[j]
    <2>1. CASE IsRaw(f)
      BY <2>1, <1>2 DEF IsRaw
    <2>2. CASE IsGrown(f)
      <3>1. SUFFICES ASSUME NEW k \in 1..Len(all)
                     PROVE  \E j \in 1..Len(first) : all[k] = first[j]
        OBVIOUS
      <3>2. CASE k \in 1..Len(f.filter)
        <4>1. all[k] = f.filter[k]
          BY <3>2, <1>2, ConcatItems
        <4> QED BY <2>2, <3>2, <4>1 DEF IsGrown
      <3>3. CASE k \notin 1..Len(f.filter)
        <4> DEFINE i == k - Len(f.filter)
        <4>1. i \in 1..Len(Globals) /\ all[k] = Globals[i]
          <5>1. k \in 1..(Len(f.filter) + Len(Globals))
            BY <1>2
          <5> QED BY <3>3, <1>2, <5>1, ConcatItems
        <4>2. Len(f.own) + i \in 1..Len(first) /\ first[Len(f.own) + i] = Globals[i]
          <5>1. first[Len(f.own) + i] = Globals[i]
            <6> HIDE DEF i
            <6> QED BY <4>1, <1>2, ConcatItems
          <5>2. Len(f.own) + i \in 1..Len(first)
            <6>1. Len(f.own) \in Nat /\ Len(Globals) \in Nat /\ i \in 1..Len(Globals)
              BY <4>1, <1>2
            <6> HIDE DEF i, first
            <6> QED BY <6>1, <1>2
          <5> QED BY <5>1, <5>2
        <4> HIDE DEF i, first, all
        <4> QED BY <4>1, <4>2
      <3> QED BY <3>2, <3>3
    <2> QED BY <2>1, <2>2 DEF Written
  <1>6. ToSet(all) = ToSet(first)
    <2>1. /\ \A x : x \in ToSet(all) <=> \E k \in 1..Len(all) : all[k] = x
          /\ \A x : x \in ToSet(first) <=> \E k \in 1..Len(first) : first[k] = x
      BY <1>2, ToSetOfSeq
    <2>2. 1..Len(first) \subseteq 1..Len(all)
      BY <1>2, <1>4
    <2> HIDE DEF first, all
    <2> QED BY <2>1, <2>2, <1>4, <1>5
  <1>7. g.opt = ForRsync(ToSet(first) \cap Includes)
    BY <1>1, <1>6 DEF Written, IsRaw, IsGrown
  <1>8. g.excludes = ForRsync(ToSet(first) \ Includes)
    <2>1. CASE all = <<>>
      <3>1. ToSet(first) = {}
        <4>1. ToSet(all) = {}
          <5> HIDE DEF all
          <5> QED BY <2>1 DEF ToSet
        <4> QED BY <4>1, <1>6
      <3>2. f.excludes = {}
        BY <3>1 DEF Written, IsRaw, IsGrown, ForRsync
      <3> QED BY <2>1, <3>1, <3>2, <1>3 DEF ForRsync
    <2>2. CASE all # <<>>
      BY <2>2, <1>3, <1>6
    <2> QED BY <2>1, <2>2
  <1>9. IsGrown(g)
    BY <1>1, <1>4, <1>5, <1>7, <1>8 DEF IsGrown
  <1> QED BY <1>1, <1>9 DEF Grown

\* The watcher ignores by the first round of filters: the later ones repeat it.
LEMMA GrownIgnores ==
  ASSUME NEW f \in Grown
  PROVE  Ignores(f.filter) = Ignores(f.own \o Globals)
  <1> DEFINE base == f.own \o Globals
             list == f.filter
  <1>1. /\ list \in Seq(Items) /\ base \in Seq(Items)
        /\ Len(base) <= Len(list)
        /\ \A k \in 1..Len(base) : list[k] = base[k]
        /\ \A k \in 1..Len(list) : \E j \in 1..Len(base) : list[k] = base[j]
    <2>1. f.own \in Seq(Items) /\ list \in Seq(Items) /\ Globals \in Seq(Items) /\ IsGrown(f)
      BY ItemsAssumption DEF Grown, Prepared, Folder
    <2> QED BY <2>1, ConcatItems DEF IsGrown
  <1> HIDE DEF base, list
  <1>2. DOMAIN list = 1..Len(list) /\ DOMAIN base = 1..Len(base)
        /\ Len(list) \in Nat /\ Len(base) \in Nat
    BY <1>1
  <1>3. ASSUME NEW n, n \in Ignores(list) PROVE n \in Ignores(base)
    <2>1. PICK k \in 1..Len(list) :
            /\ Matches(list[k], n) /\ list[k] \notin Includes
            /\ \A j \in 1..(k - 1) : ~Matches(list[j], n)
      BY <1>3, <1>2 DEF Ignores
    <2>2. PICK i \in 1..Len(base) : list[k] = base[i]
      BY <1>1, <2>1
    <2>3. i >= k
      <3>1. SUFFICES ASSUME i < k PROVE FALSE
        BY <1>2
      <3>2. i \in 1..(k - 1) /\ list[i] = list[k]
        BY <3>1, <2>2, <1>1, <1>2
      <3> QED BY <3>2, <2>1
    <2>4. k \in 1..Len(base) /\ base[k] = list[k] /\ \A j \in 1..(k - 1) : base[j] = list[j]
      BY <2>3, <1>1, <1>2
    <2>5. n \in Names
      BY <1>3 DEF Ignores
    <2> QED BY <2>1, <2>4, <2>5, <1>2 DEF Ignores
  <1>4. ASSUME NEW n, n \in Ignores(base) PROVE n \in Ignores(list)
    <2>1. PICK k \in 1..Len(base) :
            /\ Matches(base[k], n) /\ base[k] \notin Includes
            /\ \A j \in 1..(k - 1) : ~Matches(base[j], n)
      BY <1>4, <1>2 DEF Ignores
    <2>2. k \in 1..Len(list) /\ base[k] = list[k] /\ \A j \in 1..(k - 1) : base[j] = list[j]
      BY <1>1, <1>2
    <2>3. n \in Names
      BY <1>4 DEF Ignores
    <2> QED BY <2>1, <2>2, <2>3, <1>2 DEF Ignores
  <1>5. Ignores(list) = Ignores(base)
    BY <1>3, <1>4
  <1> QED BY <1>5 DEF base, list

\* What rsync excludes is ignored by the watcher as well: a name that rsync excludes is
\* matched by what filters have become, so by filters (StarAssumption), by none of those that re-include, and so by an excluding one first.
LEMMA ExcludedIsIgnored ==
  ASSUME NEW f \in Grown
  PROVE  RsyncExcludes(f) \subseteq Ignores(f.own \o Globals)
  <1> DEFINE base == f.own \o Globals
  <1>1. /\ base \in Seq(Items)
        /\ f.opt = ForRsync(ToSet(base) \cap Includes)
        /\ f.excludes = ForRsync(ToSet(base) \ Includes)
    <2>1. f.own \in Seq(Items) /\ Globals \in Seq(Items) /\ IsGrown(f)
      BY ItemsAssumption DEF Grown, Prepared, Folder
    <2> QED BY <2>1, ConcatItems DEF IsGrown
  <1> HIDE DEF base
  <1>2. /\ DOMAIN base = 1..Len(base) /\ Len(base) \in Nat
        /\ \A x : x \in ToSet(base) <=> \E k \in 1..Len(base) : base[k] = x
        /\ ToSet(base) \subseteq Items
    BY <1>1, ToSetOfSeq
  <1>3. ASSUME NEW n \in RsyncExcludes(f) PROVE n \in Ignores(base)
    <2> DEFINE T == {k \in 1..Len(base) : Matches(base[k], n)}
    <2>1. /\ n \in Names
          /\ \E rule \in f.excludes : RsyncMatches(rule, n)
          /\ \A rule \in f.opt : ~RsyncMatches(rule, n)
      BY <1>3 DEF RsyncExcludes
    <2>2. \A item \in Items : RsyncMatches(Star[item], n) <=> Matches(item, n)
      BY <2>1, StarAssumption DEF RsyncMatches, Matches
    <2>3. PICK item \in ToSet(base) \ Includes : Matches(item, n)
      BY <1>1, <1>2, <2>1, <2>2 DEF ForRsync
    <2>4. \A other \in ToSet(base) \cap Includes : ~Matches(other, n)
      BY <1>1, <1>2, <2>1, <2>2 DEF ForRsync
    <2>5. T # {} /\ T \subseteq Nat
      BY <2>3, <1>2
    <2>6. PICK k \in T : \A j \in T : k <= j
      BY <2>5, LeastNumber
    <2>7. \A j \in 1..(k - 1) : ~Matches(base[j], n)
      BY <2>6, <1>2
    <2>8. base[k] \notin Includes
      <3>1. base[k] \in ToSet(base) /\ Matches(base[k], n)
        BY <1>2
      <3> QED BY <3>1, <2>4
    <2> QED BY <2>1, <2>7, <2>8, <1>2 DEF Ignores
  <1> QED BY <1>3 DEF base

\* A folder that was prepared any number of times means what it meant the first time.
LEMMA GrownMeansTheSame ==
  ASSUME NEW f \in Grown
  PROVE  MeansTheSame(f)
  <1> DEFINE raw == [f EXCEPT !.filter = f.own, !.opt = {}, !.excludes = {}]
             first == Prepare(raw)
  <1>1. f = [id |-> f.id, own |-> f.own, monitor |-> f.monitor,
             filter |-> f.filter, opt |-> f.opt, excludes |-> f.excludes]
        /\ f.own \in Seq(Items) /\ f.id \in Ids /\ f.monitor \in {"yes", "no"}
    BY DEF Grown, Prepared, Folder
  <1>2. raw = [id |-> f.id, own |-> f.own, monitor |-> f.monitor,
               filter |-> f.own, opt |-> {}, excludes |-> {}]
    <2>1. raw = [f EXCEPT !.filter = f.own, !.opt = {}, !.excludes = {}]
      OBVIOUS
    <2>2. f = [id |-> f.id, own |-> f.own, monitor |-> f.monitor,
               filter |-> f.filter, opt |-> f.opt, excludes |-> f.excludes]
      BY <1>1
    <2> HIDE DEF raw
    <2> QED BY <2>1, <2>2
  <1>3. raw \in Written /\ raw.own = f.own
    <2> HIDE DEF raw
    <2>1. raw \in [id : Ids, own : Seq(Items), monitor : {"yes", "no", ""},
                   filter : Seq(Items), opt : SUBSET ForRsync(Items), excludes : SUBSET ForRsync(Items)]
      BY <1>1, <1>2
    <2> QED BY <2>1, <1>2 DEF Written, AnyFolder, Folder, IsRaw
  <1> HIDE DEF raw
  <1>4. first \in Grown /\ first.own = f.own
    BY <1>3, PrepareGrows, PrepareKeepsId
  <1>5. first.opt = f.opt /\ first.excludes = f.excludes
    <2>1. IsGrown(first) /\ IsGrown(f)
      BY <1>4 DEF Grown
    <2> HIDE DEF first
    <2> QED BY <2>1, <1>4 DEF IsGrown
  <1>6. RsyncExcludes(f) = RsyncExcludes(first)
    BY <1>5 DEF RsyncExcludes
  <1>7. Ignores(f.filter) = Ignores(first.filter)
    BY <1>4, GrownIgnores
  <1>8. RsyncExcludes(f) \subseteq Ignores(f.filter)
    BY GrownIgnores, ExcludedIsIgnored
  <1> QED BY <1>6, <1>7, <1>8 DEF MeansTheSame, raw

-----------------------------------------------------------------------------
(* Lists of folders.                                                       *)

\* Lists with the same ids have duplicates both or neither.
LEMMA SameIds ==
  ASSUME NEW F, NEW G, DOMAIN F = DOMAIN G, \A k \in DOMAIN F : F[k].id = G[k].id
  PROVE  /\ HasDuplicate(F) <=> HasDuplicate(G)
         /\ FolderIds(F) = FolderIds(G)
  <1>1. HasDuplicate(F) <=> HasDuplicate(G)
    BY DEF HasDuplicate, SameId
  <1>2. \A H : FolderIds(H) = {H[k].id : k \in DOMAIN H}
    BY DEF FolderIds, ToSet
  <1>3. {F[k].id : k \in DOMAIN F} = {G[k].id : k \in DOMAIN G}
    OBVIOUS
  <1> QED BY <1>1, <1>2, <1>3

\* A part of a list without duplicates has none.
LEMMA PrefixHasNoDuplicate ==
  ASSUME NEW S, NEW F \in Seq(S), ~HasDuplicate(F), NEW k \in 1..Len(F)
  PROVE  ~HasDuplicate(SubSeq(F, 1, k - 1))
  <1>1. /\ k - 1 \in 0..Len(F) /\ DOMAIN F = 1..Len(F)
        /\ DOMAIN SubSeq(F, 1, k - 1) = 1..(k - 1)
        /\ \A j \in 1..(k - 1) : SubSeq(F, 1, k - 1)[j] = F[j]
    OBVIOUS
  <1>2. 1..(k - 1) \subseteq 1..Len(F)
    OBVIOUS
  <1> QED BY <1>1, <1>2 DEF HasDuplicate, SameId

\* A function on the domain of a list is a list.
LEMMA MappedList ==
  ASSUME NEW S, NEW T, NEW F \in Seq(S), NEW G, G = [k \in DOMAIN F |-> G[k]],
         \A k \in 1..Len(F) : G[k] \in T
  PROVE  G \in Seq(T) /\ Len(G) = Len(F) /\ DOMAIN G = DOMAIN F
  <1>1. DOMAIN F = 1..Len(F) /\ Len(F) \in Nat
    OBVIOUS
  <1>2. G \in [1..Len(F) -> T]
    BY <1>1
  <1> QED BY <1>1, <1>2

\* ReadXML prepares every folder and keeps the ids.
LEMMA ReadXMLPrepares ==
  ASSUME NEW c, IsConfig(c, Written)
  PROVE  /\ IsConfig(ReadXML(c), Grown)
         /\ HasDuplicate(ReadXML(c).folders) <=> HasDuplicate(c.folders)
  <1> DEFINE F == c.folders
             G == [k \in DOMAIN F |-> Prepare(F[k])]
  <1>1. F \in Seq(Written) /\ DOMAIN F = 1..Len(F)
    BY DEF IsConfig
  <1>2. \A k \in 1..Len(F) : F[k] \in Written
    BY <1>1
  <1>3. \A k \in 1..Len(F) : G[k] \in Grown /\ G[k].id = F[k].id
    BY <1>1, <1>2, PrepareGrows, PrepareKeepsId
  <1>4. G \in Seq(Grown) /\ DOMAIN G = DOMAIN F
    <2> HIDE DEF F
    <2>1. G = [k \in DOMAIN F |-> G[k]]
      OBVIOUS
    <2> HIDE DEF G
    <2> QED BY <2>1, <1>1, <1>3, MappedList
  <1>5. ReadXML(c) = [folders |-> G, ignored |-> c.ignored]
    <2>1. c = [folders |-> F, ignored |-> c.ignored]
      BY DEF IsConfig
    <2>2. ReadXML(c) = [c EXCEPT !.folders = G]
      BY DEF ReadXML
    <2> HIDE DEF F, G
    <2> QED BY <2>1, <2>2
  <1> HIDE DEF F, G
  <1>6. HasDuplicate(G) <=> HasDuplicate(F)
    BY <1>1, <1>3, <1>4, SameIds
  <1> QED BY <1>4, <1>5, <1>6 DEF IsConfig, F

\* clean prepares all folders of a list that it accepts, and of any list those before the
\* duplicate; it keeps the ids.
LEMMA CleanedPrepares ==
  ASSUME NEW F \in Seq(Written), ~HasDuplicate(F) \/ F \in Seq(Grown)
  PROVE  /\ Cleaned(F) \in Seq(Grown)
         /\ HasDuplicate(Cleaned(F)) <=> HasDuplicate(F)
         /\ FolderIds(Cleaned(F)) = FolderIds(F)
  <1> DEFINE G == Cleaned(F)
  <1>1. DOMAIN F = 1..Len(F) /\ \A k \in 1..Len(F) : F[k] \in Written
    OBVIOUS
  <1>2. \A k \in 1..Len(F) : G[k] = Prepare(F[k]) \/ (G[k] = F[k] /\ F[k] \in Grown)
    <2>1. CASE ~HasDuplicate(F)
      BY <2>1, <1>1, PrefixHasNoDuplicate DEF Cleaned
    <2>2. CASE F \in Seq(Grown)
      BY <2>2, <1>1 DEF Cleaned
    <2> QED BY <2>1, <2>2
  <1>3. \A k \in 1..Len(F) : G[k] \in Grown /\ G[k].id = F[k].id
    BY <1>1, <1>2, PrepareGrows, PrepareKeepsId
  <1>4. G = [k \in DOMAIN F |-> G[k]]
    BY DEF Cleaned
  <1> HIDE DEF G
  <1>5. G \in Seq(Grown) /\ DOMAIN G = DOMAIN F
    BY <1>3, <1>4, MappedList
  <1>6. (HasDuplicate(G) <=> HasDuplicate(F)) /\ FolderIds(G) = FolderIds(F)
    BY <1>1, <1>3, <1>5, SameIds
  <1> QED BY <1>5, <1>6 DEF G

-----------------------------------------------------------------------------
(* The invariant.                                                          *)

LEMMA NewFoldersAreWritten == NewFolders \subseteq Written
  <1> SUFFICES ASSUME NEW id \in Ids, NEW draft \in Drafts PROVE RawFolder(id, draft) \in Written
    BY DEF NewFolders
  <1>1. draft.own \in Seq(Items) /\ draft.monitor \in {"yes", "no", ""}
    BY ItemsAssumption
  <1> QED BY <1>1 DEF RawFolder, Written, AnyFolder, Folder, IsRaw

\* A list may be put in the place of another.
LEMMA WithFolders ==
  ASSUME NEW S, NEW T, NEW c, IsConfig(c, S), NEW F \in Seq(T)
  PROVE  /\ [c EXCEPT !.folders = F] = [folders |-> F, ignored |-> c.ignored]
         /\ IsConfig([c EXCEPT !.folders = F], T)
  <1>1. c = [folders |-> c.folders, ignored |-> c.ignored]
    BY DEF IsConfig
  <1>2. [c EXCEPT !.folders = F] = [folders |-> F, ignored |-> c.ignored]
    BY <1>1
  <1> QED BY <1>2 DEF IsConfig

LEMMA GrownConfigIsWritten ==
  ASSUME NEW c, IsConfig(c, Grown)
  PROVE  IsConfig(c, Written)
  <1>1. Seq(Grown) \subseteq Seq(Written)
    BY GrownIsWritten
  <1> QED BY <1>1 DEF IsConfig

\* Neither two folders of one id nor an ignored folder that is configured.
IsClean(c) ==
  /\ ~HasDuplicate(c.folders)
  /\ \A id \in ToSet(c.ignored) : id \notin FolderIds(c.folders)

\* A configuration that clean accepts is prepared and clean.
LEMMA AcceptKeeps ==
  ASSUME NEW to, IsConfig(to, Written), ~HasDuplicate(to.folders), Accept(to)
  PROVE  /\ IsConfig(cfg', Grown) /\ IsClean(cfg')
         /\ folderMap' = NoMap /\ replaced' = TRUE
  <1> DEFINE left == StillIgnored(to.ignored, to.folders)
  <1>1. cfg' = [folders |-> Cleaned(to.folders), ignored |-> left]
        /\ folderMap' = NoMap /\ replaced' = TRUE
    BY DEF Accept
  <1>2. /\ Cleaned(to.folders) \in Seq(Grown) /\ ~HasDuplicate(Cleaned(to.folders))
        /\ FolderIds(Cleaned(to.folders)) = FolderIds(to.folders)
    BY CleanedPrepares DEF IsConfig
  <1>3. left \in Seq(Ids \cap (Ids \ FolderIds(to.folders)))
    BY KeptIsSubsequence DEF IsConfig, StillIgnored
  <1>4. left \in Seq(Ids) /\ ToSet(left) \subseteq Ids \ FolderIds(to.folders)
    <2> HIDE DEF left
    <2>1. ToSet(left) \subseteq Ids \cap (Ids \ FolderIds(to.folders))
      BY <1>3, ToSetOfSeq
    <2> QED BY <2>1, <1>3
  <1> HIDE DEF left
  <1>5. cfg'.folders = Cleaned(to.folders) /\ cfg'.ignored = left
        /\ cfg' = [folders |-> cfg'.folders, ignored |-> cfg'.ignored]
    BY <1>1
  <1>6. IsClean(cfg')
    BY <1>2, <1>4, <1>5 DEF IsClean
  <1> QED BY <1>1, <1>2, <1>4, <1>5, <1>6 DEF IsConfig

\* What a bounded list is to TLC is a sequence.
LEMMA BoundedList ==
  ASSUME NEW S, NEW n \in Nat, NEW s \in SeqOf(S, n)
  PROVE  s \in Seq(S)
  <1>1. PICK m \in 0..n : s \in [1..m -> S]
    BY DEF SeqOf
  <1> QED BY <1>1

LEMMA InitCInv == Init => CInv
  <1> SUFFICES ASSUME Init PROVE CInv
    OBVIOUS
  <1>1. disk \in [folders : SeqOf(NewFolders, MaxFolders - 1), ignored : SeqOf(Ids, 2)]
        /\ cfg = ReadXML(disk) /\ copy = NoCopy /\ saving = NoSave
    BY DEF Init
  <1>2. disk = [folders |-> disk.folders, ignored |-> disk.ignored]
        /\ disk.folders \in SeqOf(NewFolders, MaxFolders - 1) /\ disk.ignored \in SeqOf(Ids, 2)
    BY <1>1
  <1>3. disk.folders \in Seq(Written) /\ disk.ignored \in Seq(Ids)
    <2>1. MaxFolders - 1 \in Nat
      BY ConfigurationBounds
    <2>2. disk.folders \in Seq(NewFolders) /\ disk.ignored \in Seq(Ids)
      BY <1>2, <2>1, BoundedList
    <2> QED BY <2>2, NewFoldersAreWritten
  <1>4. IsConfig(disk, Written)
    BY <1>2, <1>3 DEF IsConfig
  <1> QED BY <1>1, <1>4, ReadXMLPrepares DEF CInv

LEMMA ReplacedList ==
  ASSUME NEW S, NEW F \in Seq(S), NEW at, NEW e \in S
  PROVE  ReplaceAt(F, at, e) \in Seq(S)
  <1> DEFINE G == ReplaceAt(F, at, e)
  <1>1. F \in [1..Len(F) -> S] /\ Len(F) \in Nat /\ DOMAIN F = 1..Len(F)
    OBVIOUS
  <1>2. G = [k \in DOMAIN F |-> IF k = at THEN e ELSE F[k]]
    BY Zenon DEF ReplaceAt
  <1>3. \A k \in 1..Len(F) : (IF k = at THEN e ELSE F[k]) \in S
    BY <1>1
  <1> HIDE DEF G
  <1>4. G \in [1..Len(F) -> S]
    BY <1>1, <1>2, <1>3
  <1>5. G \in Seq(S)
    BY <1>1, <1>4
  <1> QED BY <1>5 DEF G

\* What SetFolder hands to replaceLocked is a list of prepared folders and a new one.
LEMMA SetFolderLists ==
  ASSUME CInv, NEW f \in NewFolders, NEW at
  PROVE  /\ IsConfig([cfg EXCEPT !.folders = ReplaceAt(@, at, f)], Written)
         /\ IsConfig([cfg EXCEPT !.folders = Append(@, f)], Written)
         /\ [cfg EXCEPT !.folders = Append(@, f)].folders = Append(cfg.folders, f)
  <1>1. IsConfig(cfg, Written) /\ cfg.folders \in Seq(Written) /\ f \in Written
    BY GrownConfigIsWritten, NewFoldersAreWritten DEF CInv, IsConfig
  <1>2. ReplaceAt(cfg.folders, at, f) \in Seq(Written) /\ Append(cfg.folders, f) \in Seq(Written)
    <2>1. ReplaceAt(cfg.folders, at, f) \in Seq(Written)
      BY <1>1, ReplacedList
    <2> QED BY <1>1, <2>1
  <1>3. /\ [cfg EXCEPT !.folders = ReplaceAt(cfg.folders, at, f)] = [cfg EXCEPT !.folders = ReplaceAt(@, at, f)]
        /\ [cfg EXCEPT !.folders = Append(cfg.folders, f)] = [cfg EXCEPT !.folders = Append(@, f)]
    OBVIOUS
  <1>4. [cfg EXCEPT !.folders = Append(cfg.folders, f)].folders = Append(cfg.folders, f)
    BY <1>1, <1>2, WithFolders
  <1> QED BY <1>1, <1>2, <1>3, <1>4, WithFolders

\* A folder with a new id makes no duplicate.
LEMMA NewIdMakesNoDuplicate ==
  ASSUME NEW S, NEW F \in Seq(S), NEW f \in S, f.id \notin FolderIds(F),
         HasDuplicate(Append(F, f))
  PROVE  HasDuplicate(F)
  <1> DEFINE G == Append(F, f)
  <1>1. /\ DOMAIN G = 1..(Len(F) + 1) /\ DOMAIN F = 1..Len(F) /\ Len(F) \in Nat
        /\ G[Len(F) + 1] = f /\ \A k \in 1..Len(F) : G[k] = F[k]
    OBVIOUS
  <1>2. \A k \in 1..Len(F) : F[k].id # f.id
    BY <1>1 DEF FolderIds, ToSet
  <1> HIDE DEF G
  <1>3. PICK j, k \in 1..(Len(F) + 1) : j < k /\ G[j].id = G[k].id
    BY <1>1 DEF HasDuplicate, SameId, G
  <1>4. k # Len(F) + 1
    <2>1. SUFFICES ASSUME k = Len(F) + 1 PROVE FALSE
      OBVIOUS
    <2>2. j \in 1..Len(F)
      BY <1>1, <1>3, <2>1
    <2> QED BY <1>1, <1>2, <1>3, <2>1, <2>2
  <1>5. j \in 1..Len(F) /\ k \in 1..Len(F)
    BY <1>1, <1>3, <1>4
  <1> QED BY <1>1, <1>3, <1>5 DEF HasDuplicate, SameId

\* How a step changes the configuration: it is replaced by one without duplicates, or a
\* rejected SetFolder prepares the folders of one with duplicates, or it is read anew.
CfgStep ==
  \/ cfg' = cfg /\ (folderMap' = folderMap \/ BuildMap) /\ replaced' = replaced
  \/ IsConfig(cfg', Grown) /\ IsClean(cfg') /\ folderMap' = NoMap /\ replaced' = TRUE
  \/ /\ IsConfig(cfg', Grown) /\ HasDuplicate(cfg.folders) /\ HasDuplicate(cfg'.folders)
     /\ replaced' = replaced
  \/ cfg' = ReadXML(disk) /\ folderMap' = NoMap /\ replaced' = FALSE

LEMMA ReplaceStep ==
  ASSUME CInv, Replace
  PROVE  CfgStep /\ disk' = disk /\ saving' = saving /\ copy' = NoCopy
  <1>1. copy # NoCopy /\ IsConfig(copy, Written)
    BY DEF Replace, CInv
  <1>2. CASE HasDuplicate(copy.folders)
    BY <1>2 DEF Replace, CfgStep
  <1>3. CASE ~HasDuplicate(copy.folders)
    BY <1>1, <1>3, AcceptKeeps DEF Replace, CfgStep
  <1>4. disk' = disk /\ saving' = saving /\ copy' = NoCopy
    BY DEF Replace
  <1> QED BY <1>2, <1>3, <1>4

LEMMA OverwriteStep ==
  ASSUME CInv, NEW f \in NewFolders, OverwriteFolder(f)
  PROVE  CfgStep /\ disk' = disk /\ saving' = saving /\ copy' = copy
  <1> DEFINE at == SelectInSeq(cfg.folders, LAMBDA g : g.id = f.id)
             to == [cfg EXCEPT !.folders = ReplaceAt(@, at, f)]
  <1>1. /\ disk' = disk /\ saving' = saving /\ copy' = copy
        /\ IF HasDuplicate(to.folders)
           THEN UNCHANGED <<cfg, folderMap, replaced, spare>>
           ELSE Accept(to) /\ spare' = FALSE
    BY DEF OverwriteFolder
  <1> HIDE DEF at
  <1>2. IsConfig(to, Written)
    BY SetFolderLists
  <1> HIDE DEF to
  <1>3. CASE HasDuplicate(to.folders)
    BY <1>1, <1>3 DEF CfgStep
  <1>4. CASE ~HasDuplicate(to.folders)
    BY <1>1, <1>2, <1>4, AcceptKeeps DEF CfgStep
  <1> QED BY <1>1, <1>3, <1>4

LEMMA AppendStep ==
  ASSUME CInv, NEW f \in NewFolders, AppendFolder(f)
  PROVE  CfgStep /\ disk' = disk /\ saving' = saving /\ copy' = copy
  <1> DEFINE to == [cfg EXCEPT !.folders = Append(@, f)]
  <1>1. /\ disk' = disk /\ saving' = saving /\ copy' = copy
        /\ f.id \notin FolderIds(cfg.folders)
        /\ IF HasDuplicate(to.folders)
           THEN /\ cfg' = IF spare THEN [cfg EXCEPT !.folders = Cleaned(@)] ELSE cfg
                /\ UNCHANGED <<folderMap, replaced, spare>>
           ELSE Accept(to) /\ spare' \in BOOLEAN
    BY DEF AppendFolder
  <1>2. IsConfig(to, Written) /\ to.folders = Append(cfg.folders, f)
    BY SetFolderLists
  <1> HIDE DEF to
  <1>3. CASE ~HasDuplicate(to.folders)
    BY <1>1, <1>2, <1>3, AcceptKeeps DEF CfgStep
  <1>4. CASE HasDuplicate(to.folders)
    <2>1. /\ cfg.folders \in Seq(Grown) /\ cfg.folders \in Seq(Written) /\ IsConfig(cfg, Grown)
          /\ f \in Written
      BY GrownConfigIsWritten, NewFoldersAreWritten DEF CInv, IsConfig
    <2>2. HasDuplicate(cfg.folders)
      BY <1>1, <1>2, <1>4, <2>1, NewIdMakesNoDuplicate
    <2>3. Cleaned(cfg.folders) \in Seq(Grown) /\ HasDuplicate(Cleaned(cfg.folders))
      BY <2>1, <2>2, CleanedPrepares
    <2>4. CASE cfg' = cfg
      BY <1>1, <1>4, <2>4 DEF CfgStep
    <2>5. CASE cfg' = [cfg EXCEPT !.folders = Cleaned(cfg.folders)]
      <3>1. cfg' = [folders |-> Cleaned(cfg.folders), ignored |-> cfg.ignored]
        BY <2>1, <2>3, <2>5, WithFolders
      <3>2. cfg'.folders = Cleaned(cfg.folders) /\ cfg'.ignored = cfg.ignored
        BY <3>1
      <3>3. IsConfig(cfg', Grown)
        BY <2>1, <2>3, <3>1, <3>2 DEF IsConfig
      <3>4. HasDuplicate(cfg'.folders)
        BY <2>3, <3>2
      <3> QED BY <1>1, <1>4, <3>3, <3>4, <2>2 DEF CfgStep
    <2> QED BY <1>1, <1>4, <2>4, <2>5
  <1> QED BY <1>1, <1>3, <1>4

\* What a Save puts in place is a list of prepared folders, and the list that it began
\* with if that was not replaced meanwhile.
LEMMA SaveStep ==
  ASSUME CInv, SaveIgnored
  PROVE  /\ cfg' = cfg /\ folderMap' = folderMap /\ copy' = copy /\ saving' = NoSave
         /\ replaced' = replaced /\ IsConfig(disk', Written)
         /\ saving = cfg.folders => disk'.folders = cfg.folders
  <1>1. PICK last \in 0..Len(saving) :
          /\ last = Len(saving) \/ Len(saving) <= Len(cfg.folders)
          /\ disk' = [folders |-> [k \in DOMAIN saving |->
                                     IF k <= last THEN saving[k] ELSE cfg.folders[k]],
                      ignored |-> cfg.ignored]
    BY DEF SaveIgnored
  <1> DEFINE G == [k \in DOMAIN saving |-> IF k <= last THEN saving[k] ELSE cfg.folders[k]]
  <1>2. /\ saving \in Seq(Grown) /\ cfg.folders \in Seq(Grown)
        /\ DOMAIN saving = 1..Len(saving) /\ Len(saving) \in Nat /\ last \in 0..Len(saving)
    BY DEF SaveIgnored, CInv, IsConfig
  <1>3. \A k \in 1..Len(saving) : G[k] \in Grown
    <2> SUFFICES ASSUME NEW k \in 1..Len(saving) PROVE G[k] \in Grown
      OBVIOUS
    <2>1. G[k] = IF k <= last THEN saving[k] ELSE cfg.folders[k]
      BY <1>2
    <2>2. saving[k] \in Grown
      BY <1>2
    <2>3. k <= last \/ k \in 1..Len(cfg.folders)
      <3>1. last = Len(saving) \/ Len(saving) <= Len(cfg.folders)
        BY <1>1
      <3>2. Len(cfg.folders) \in Nat
        BY <1>2
      <3>3. k \in Nat /\ k >= 1 /\ k <= Len(saving) /\ Len(saving) \in Nat /\ last \in Nat
        BY <1>2
      <3> QED BY <3>1, <3>2, <3>3
    <2>4. \A j \in 1..Len(cfg.folders) : cfg.folders[j] \in Grown
      BY <1>2
    <2> HIDE DEF G
    <2> QED BY <2>1, <2>2, <2>3, <2>4
  <1>4. G \in Seq(Written)
    <2>1. G = [k \in DOMAIN saving |-> G[k]]
      OBVIOUS
    <2> HIDE DEF G
    <2>2. G \in Seq(Grown)
      BY <1>2, <1>3, <2>1, MappedList
    <2> QED BY <2>2, GrownIsWritten
  <1>5. ASSUME saving = cfg.folders PROVE G = cfg.folders
    <2>1. \A k \in DOMAIN saving : G[k] = cfg.folders[k]
      BY <1>5
    <2>2. G = [k \in DOMAIN saving |-> G[k]] /\ DOMAIN saving = DOMAIN cfg.folders
      BY <1>5
    <2>3. cfg.folders = [k \in DOMAIN cfg.folders |-> cfg.folders[k]]
      BY <1>2
    <2> HIDE DEF G
    <2> QED BY <2>1, <2>2, <2>3
  <1> HIDE DEF G
  <1>6. disk' = [folders |-> G, ignored |-> cfg.ignored]
    BY <1>1 DEF G
  <1>7. cfg' = cfg /\ folderMap' = folderMap /\ copy' = copy /\ saving' = NoSave
        /\ replaced' = replaced /\ cfg.ignored \in Seq(Ids)
    BY DEF SaveIgnored, CInv, IsConfig
  <1> QED BY <1>4, <1>5, <1>6, <1>7 DEF IsConfig

\* The caller edits its copy.
LEMMA EditStep ==
  ASSUME CInv, EditCopy
  PROVE  /\ cfg' = cfg /\ folderMap' = folderMap /\ disk' = disk /\ saving' = saving
         /\ replaced' = replaced /\ IsConfig(copy', Written)
  <1>1. /\ cfg' = cfg /\ folderMap' = folderMap /\ disk' = disk /\ saving' = saving
        /\ replaced' = replaced /\ copy # NoCopy
    BY DEF EditCopy
  <1>2. IsConfig(copy, Written) /\ copy.folders \in Seq(Written)
        /\ copy = [folders |-> copy.folders, ignored |-> copy.ignored] /\ copy.ignored \in Seq(Ids)
    BY <1>1 DEF CInv, IsConfig
  <1>3. CASE \E f \in NewFolders : copy' = [copy EXCEPT !.folders = Append(@, f)]
    <2>1. PICK f \in NewFolders : copy' = [copy EXCEPT !.folders = Append(copy.folders, f)]
      BY <1>3
    <2>2. Append(copy.folders, f) \in Seq(Written)
      BY <1>2, NewFoldersAreWritten
    <2> QED BY <1>1, <1>2, <2>1, <2>2, WithFolders
  <1>4. CASE \E id \in Ids : copy' = [copy EXCEPT !.ignored = Append(@, id)]
    <2>1. PICK id \in Ids : copy' = [copy EXCEPT !.ignored = Append(copy.ignored, id)]
      BY <1>4
    <2>2. copy' = [folders |-> copy.folders, ignored |-> Append(copy.ignored, id)]
      <3> DEFINE list == Append(copy.ignored, id)
      <3>1. copy' = [copy EXCEPT !.ignored = list]
        BY <2>1
      <3> HIDE DEF list
      <3>2. copy' = [folders |-> copy.folders, ignored |-> list]
        BY <1>2, <3>1
      <3> QED BY <3>2 DEF list
    <2>3. Append(copy.ignored, id) \in Seq(Ids)
      BY <1>2
    <2> QED BY <1>1, <1>2, <2>2, <2>3 DEF IsConfig
  <1>5. CASE copy.folders # <<>> /\ copy' = [copy EXCEPT !.folders = Tail(@)]
    <2>1. copy' = [copy EXCEPT !.folders = Tail(copy.folders)]
      BY <1>5
    <2>2. Tail(copy.folders) \in Seq(Written)
      BY <1>2, <1>5
    <2> QED BY <1>1, <1>2, <2>1, <2>2, WithFolders
  <1> QED BY <1>3, <1>4, <1>5 DEF EditCopy

\* Each step changes the configuration in one of these ways and keeps the invariant.
LEMMA StepCInv ==
  ASSUME CInv, [Next]_vars
  PROVE  CInv' /\ CfgStep
  <1> USE DEF CInv
  <1>0. ASSUME CfgStep PROVE IsConfig(cfg', Grown)
    BY <1>0, ReadXMLPrepares DEF CfgStep
  <1>1. CASE RawCopy
    BY <1>1, GrownConfigIsWritten DEF RawCopy, CfgStep
  <1>2. CASE EditCopy
    BY <1>2, EditStep DEF CfgStep
  <1>3. CASE Replace
    BY <1>0, <1>3, ReplaceStep
  <1>4. CASE BuildMap
    BY <1>4 DEF BuildMap, CfgStep
  <1>5. CASE SaveFolders
    BY <1>5 DEF SaveFolders, CfgStep, IsConfig
  <1>6. CASE SaveIgnored
    BY <1>6, SaveStep DEF CfgStep
  <1>7. CASE Reload
    BY <1>0, <1>7 DEF Reload, CfgStep
  <1>8. ASSUME NEW f \in NewFolders, OverwriteFolder(f) PROVE CInv' /\ CfgStep
    BY <1>0, <1>8, OverwriteStep
  <1>9. ASSUME NEW f \in NewFolders, AppendFolder(f) PROVE CInv' /\ CfgStep
    BY <1>0, <1>9, AppendStep
  <1>10. CASE UNCHANGED vars
    BY <1>10 DEF vars, CfgStep
  <1> QED
    BY <1>1, <1>2, <1>3, <1>4, <1>5, <1>6, <1>7, <1>8, <1>9, <1>10 DEF Next

\* Whatever is in use has been prepared, whatever is around was prepared or is as it was
\* written, through any replacements, saves and loads.
THEOREM ConfigurationInvariant == Spec => []CInv
  <1>1. Init => CInv
    BY InitCInv
  <1>2. CInv /\ [Next]_vars => CInv'
    BY StepCInv
  <1> QED BY <1>1, <1>2, PTL DEF Spec

\* A folder excludes and ignores what it did when it was first read, however often it was
\* cleaned, saved and loaded since, and rsync excludes nothing that is not ignored.
THEOREM FiltersMeanTheSame == Spec => []FiltersKeepMeaning
  <1>1. CInv => FiltersKeepMeaning
    <2> SUFFICES ASSUME CInv, NEW f \in ToSet(cfg.folders) PROVE MeansTheSame(f)
      BY DEF FiltersKeepMeaning
    <2>1. f \in Grown
      BY ToSetOfSeq DEF CInv, IsConfig
    <2> QED BY <2>1, GrownMeansTheSame
  <1> QED BY <1>1, ConfigurationInvariant, PTL

\* Ids that are unique in the configuration and in its file stay so.
THEOREM IdsStayUnique == Spec => UniqueIdsStay
  <1> DEFINE Unique == ~HasDuplicate(cfg.folders) /\ ~HasDuplicate(disk.folders)
                       /\ (saving # NoSave => saving = cfg.folders)
             UniqueNext == ~HasDuplicate(cfg'.folders) /\ ~HasDuplicate(disk'.folders)
  <1>1. CInv /\ [Next]_vars => [Unique => UniqueNext]_vars
    <2> SUFFICES ASSUME CInv, [Next]_vars, Unique PROVE UniqueNext
      OBVIOUS
    <2>1. ~HasDuplicate(cfg'.folders)
      BY StepCInv, ReadXMLPrepares DEF CfgStep, CInv, IsClean
    <2>2. ~HasDuplicate(disk'.folders)
      <3>1. CASE SaveIgnored
        <4>1. saving # NoSave
          BY <3>1 DEF SaveIgnored
        <4>2. disk'.folders = cfg.folders
          BY <3>1, <4>1, SaveStep
        <4> QED BY <4>2
      <3>2. CASE ~SaveIgnored
        <4>1. disk' = disk
          BY <3>2 DEF Next, vars, RawCopy, EditCopy, Replace, BuildMap, SaveFolders, Reload,
                      OverwriteFolder, AppendFolder
        <4> QED BY <4>1
      <3> QED BY <3>1, <3>2
    <2> QED BY <2>1, <2>2
  <1>2. Spec => [][Unique => UniqueNext]_vars
    BY <1>1, ConfigurationInvariant, PTL DEF Spec
  <1> QED BY <1>2 DEF UniqueIdsStay

\* The cached map agrees with the folders as long as their ids are unique.
THEOREM MapAgreesWithFolders == Spec => []MapIsFresh
  <1>1. Init => MapIsFresh
    BY DEF Init, MapIsFresh
  <1>2. CInv /\ MapIsFresh /\ [Next]_vars => MapIsFresh'
    <2> SUFFICES ASSUME CInv, MapIsFresh, [Next]_vars,
                        folderMap' # NoMap, ~HasDuplicate(cfg'.folders)
                 PROVE  /\ DOMAIN folderMap' = FolderIds(cfg'.folders)
                        /\ \A k \in DOMAIN cfg'.folders :
                             folderMap'[cfg'.folders[k].id] = cfg'.folders[k]
      BY DEF MapIsFresh
    <2>1. cfg' = cfg /\ (folderMap' = folderMap \/ BuildMap)
      BY StepCInv DEF CfgStep, IsClean
    <2>2. CASE folderMap' = folderMap
      BY <2>1, <2>2 DEF MapIsFresh
    <2>3. CASE BuildMap
      <3> DEFINE F == cfg.folders
      <3>1. folderMap' = [id \in FolderIds(F) |-> F[LastWith(F, id)]]
        BY <2>3 DEF BuildMap
      <3>2. ASSUME NEW k \in DOMAIN F
            PROVE  F[k].id \in FolderIds(F) /\ LastWith(F, F[k].id) = k
        <4>1. F[k].id \in FolderIds(F)
          BY DEF FolderIds, ToSet
        <4>2. DOMAIN F = 1..Len(F) /\ Len(F) \in Nat
          BY DEF CInv, IsConfig
        <4>3. \A j \in DOMAIN F : F[j].id = F[k].id => j = k
          <5>1. \A i, j \in DOMAIN F : i < j => F[i].id # F[j].id
            BY <2>1 DEF HasDuplicate, SameId
          <5> QED BY <4>2, <5>1
        <4>4. \A i \in DOMAIN F :
                (F[i].id = F[k].id /\ \A j \in DOMAIN F : F[j].id = F[k].id => j <= i) <=> i = k
          BY <4>2, <4>3
        <4> QED BY <4>1, <4>4 DEF LastWith
      <3> QED BY <2>1, <3>1, <3>2
    <2> QED BY <2>1, <2>2, <2>3
  <1> QED BY <1>1, <1>2, ConfigurationInvariant, PTL DEF Spec

ScalarsTyped == spare \in BOOLEAN /\ replaced \in BOOLEAN /\ changes \in 0..MaxChanges

\* Everything has its type; in particular the attribute of every folder in use is set.
THEOREM ConfigurationTyped == Spec => []TypeOK
  <1>1. Init => ScalarsTyped
    <2> SUFFICES ASSUME Init PROVE ScalarsTyped
      OBVIOUS
    <2>1. spare \in BOOLEAN /\ replaced = FALSE /\ changes = 0
      BY DEF Init
    <2>2. changes \in 0..MaxChanges
      BY <2>1, ConfigurationBounds
    <2>3. replaced \in BOOLEAN
      BY <2>1, Zenon
    <2> QED BY <2>1, <2>2, <2>3, Zenon DEF ScalarsTyped
  <1>2. ScalarsTyped /\ [Next]_vars => ScalarsTyped'
    <2> SUFFICES ASSUME ScalarsTyped, [Next]_vars PROVE ScalarsTyped'
      OBVIOUS
    <2> USE DEF ScalarsTyped
    <2>1. Bounded => changes' \in 0..MaxChanges
      BY ConfigurationBounds DEF Bounded
    <2>2. \A to : Accept(to) => replaced' = TRUE
      BY DEF Accept
    <2>3. CASE RawCopy
      BY <2>3 DEF RawCopy
    <2>4. CASE EditCopy
      BY <2>4, <2>1 DEF EditCopy
    <2>5. CASE Replace
      BY <2>5, <2>1, <2>2 DEF Replace
    <2>6. CASE BuildMap
      BY <2>6 DEF BuildMap
    <2>7. CASE SaveFolders
      BY <2>7 DEF SaveFolders
    <2>8. CASE SaveIgnored
      BY <2>8 DEF SaveIgnored
    <2>9. CASE Reload
      BY <2>9, <2>1 DEF Reload
    <2>10. ASSUME NEW f \in NewFolders, OverwriteFolder(f) PROVE ScalarsTyped'
      BY <2>10, <2>1, <2>2 DEF OverwriteFolder
    <2>11. ASSUME NEW f \in NewFolders, AppendFolder(f) PROVE ScalarsTyped'
      BY <2>11, <2>1, <2>2 DEF AppendFolder
    <2>12. CASE UNCHANGED vars
      BY <2>12 DEF vars
    <2> QED
      BY <2>3, <2>4, <2>5, <2>6, <2>7, <2>8, <2>9, <2>10, <2>11, <2>12 DEF Next
  <1>3. CInv /\ ScalarsTyped => TypeOK
    <2> SUFFICES ASSUME CInv, ScalarsTyped PROVE TypeOK
      OBVIOUS
    <2>1. Grown \subseteq Prepared /\ Written \subseteq Folder({"yes", "no", ""})
      BY DEF Grown, Written, AnyFolder
    <2>2. ASSUME NEW c, NEW S, NEW T, S \subseteq T, IsConfig(c, S) PROVE c \in Lists(T)
      <3>1. c.folders \in Seq(T) /\ c.ignored \in Seq(Ids)
        BY <2>2 DEF IsConfig
      <3>2. c = [folders |-> c.folders, ignored |-> c.ignored]
        BY <2>2 DEF IsConfig
      <3> QED BY <3>1, <3>2 DEF Lists
    <2>3. cfg \in Lists(Prepared) /\ disk \in Lists(Folder({"yes", "no", ""}))
      BY <2>1, <2>2 DEF CInv
    <2>4. copy = NoCopy \/ copy \in Lists(Folder({"yes", "no", ""}))
      BY <2>1, <2>2 DEF CInv
    <2>5. saving = NoSave \/ saving \in Seq(Prepared)
      <3>1. Seq(Grown) \subseteq Seq(Prepared)
        <4>1. Grown \subseteq Prepared
          BY <2>1
        <4> QED BY <4>1
      <3>2. saving = NoSave \/ saving \in Seq(Grown)
        BY DEF CInv
      <3> QED BY <3>1, <3>2
    <2> QED BY <2>3, <2>4, <2>5 DEF TypeOK, ScalarsTyped
  <1> QED BY <1>1, <1>2, <1>3, ConfigurationInvariant, PTL DEF Spec

\* However a configuration came about that replaced another one, no two of its folders have
\* one id and it ignores none that it has.
THEOREM ReplacedIsClean == Spec => []CleanOnceReplaced
  <1>1. CleanOnceReplaced <=> (replaced => IsClean(cfg))
    BY DEF CleanOnceReplaced, IsClean
  <1>2. Init => CleanOnceReplaced
    BY DEF Init, CleanOnceReplaced
  <1>3. CInv /\ CleanOnceReplaced /\ [Next]_vars => CleanOnceReplaced'
    <2> SUFFICES ASSUME CInv, CleanOnceReplaced, [Next]_vars PROVE CleanOnceReplaced'
      OBVIOUS
    <2>1. CfgStep
      BY StepCInv
    <2>2. replaced' => IsClean(cfg')
      BY <2>1, <1>1 DEF CfgStep, IsClean
    <2> QED BY <2>2 DEF CleanOnceReplaced, IsClean
  <1> QED BY <1>2, <1>3, ConfigurationInvariant, PTL DEF Spec

\* A loop that keeps some folders keeps none twice.
LEMMA KeptHasNoDuplicate ==
  ASSUME NEW S, NEW F \in Seq(S), NEW keep, ~HasDuplicate(F)
  PROVE  Kept(F, keep) \in Seq(S) /\ ~HasDuplicate(Kept(F, keep))
  <1> DEFINE K == Kept(F, keep)
  <1>1. K \in Seq(S \cap keep)
    BY KeptIsSubsequence
  <1>2. PICK at \in [1..Len(K) -> 1..Len(F)] :
          /\ \A i \in 1..Len(K) : K[i] = F[at[i]]
          /\ \A i, j \in 1..Len(K) : i < j => at[i] < at[j]
    BY KeptIsSubsequence
  <1> HIDE DEF K
  <1>3. DOMAIN K = 1..Len(K) /\ DOMAIN F = 1..Len(F) /\ K \in Seq(S)
    BY <1>1
  <1>4. \A i, j \in 1..Len(K) : i < j => K[i].id # K[j].id
    BY <1>2, <1>3 DEF HasDuplicate, SameId
  <1> QED BY <1>3, <1>4 DEF HasDuplicate, SameId, K

\* No folder gets two goroutines, whatever folders and labels are named: getFolders and
\* filterFolders keep each folder at most once.
THEOREM FoldersWatchedOnce == Spec => []OneWatcherPerFolder
  <1>1. CInv => OneWatcherPerFolder
    <2> SUFFICES ASSUME CInv, ~HasDuplicate(cfg.folders)
                 PROVE  ~HasDuplicate(FilterFolders(GetFolders(cfg.folders)))
      BY DEF OneWatcherPerFolder
    <2>1. cfg.folders \in Seq(Grown)
      BY DEF CInv, IsConfig
    <2>2. GetFolders(cfg.folders) \in Seq(Grown) /\ ~HasDuplicate(GetFolders(cfg.folders))
      BY <2>1, KeptHasNoDuplicate DEF GetFolders
    <2> QED BY <2>2, KeptHasNoDuplicate DEF FilterFolders
  <1> QED BY <1>1, ConfigurationInvariant, PTL
=============================================================================
