-------------------------- MODULE ReviewInputProofs -------------------------
(***************************************************************************)
(* Proofs about ReviewInput for every policy file, pull request and limit: *)
(* the diff keeps to its budget, what is cut is told and was cut for want  *)
(* of room, the policy in force is the one that is written, and it alone   *)
(* hides files.                                                            *)
(***************************************************************************)
EXTENDS ReviewInput, FiniteSetTheorems, TLAPS

\* The parameters of CompressDiff are fixed before it looks at a file, and it
\* starts from nothing.
FixedBefore ==
  /\ stage # "filtering" => files = <<>> /\ ignored = <<>>
  /\ outFiles # <<>> => stage = "filtering" /\ Position > Len(changed)
  /\ outFiles = <<>> => used = 0 /\ omitted = 0 /\ ~truncated

\* Files are listed by their names, in their order.
Listed == \A i \in DOMAIN outFiles : outFiles[i].path = files[i].path

\* What a warning goes with.
DefaultWhenWarned ==
  /\ warned => policy = DefaultConfig /\ ignored = <<>>
  /\ stage \in {"fetching", "reading"} => ~warned

Inv ==
  /\ TypeOK /\ FixedBefore /\ Listed /\ DefaultWhenWarned
  /\ WithinBudget /\ CutIsTold /\ CutsOnlyWhenFull

LEMMA InvInit == Init => Inv
<1> SUFFICES ASSUME Init PROVE Inv
  OBVIOUS
<1>1. /\ stage = "fetching" /\ warned = FALSE
      /\ maxBytes \in Int /\ files = <<>> /\ outFiles = <<>>
      /\ used = 0 /\ omitted = 0 /\ truncated = FALSE
      /\ changed = <<>> /\ ignored = <<>>
  BY LimitsAssumption DEF Init, PolicyInit, DiffInit
<1>2. TypeOK
  <2>1. /\ changed \in Seq(Files) /\ files \in Seq(Files) /\ ignored \in Seq(Paths)
        /\ outFiles \in Seq([path : Paths, shown : Nat, truncated : BOOLEAN])
        /\ Len(outFiles) <= Len(files)
    BY <1>1
  <2> QED
    BY <1>1, <2>1 DEF TypeOK
<1>3. WithinBudget
  BY <1>1, LimitsAssumption DEF WithinBudget, Budget
<1>4. CutIsTold /\ CutsOnlyWhenFull /\ Listed
  BY <1>1 DEF CutIsTold, CutsOnlyWhenFull, Listed
<1>5. FixedBefore /\ DefaultWhenWarned
  BY <1>1 DEF FixedBefore, DefaultWhenWarned
<1> QED
  BY <1>2, <1>3, <1>4, <1>5 DEF Inv

\* What loading the policy does: nothing to the diff, and it warns only when it
\* returns the defaults.
Loading ==
  /\ stage \in {"fetching", "reading"}
  /\ UNCHANGED <<maxBytes, files, outFiles, used, omitted, truncated>>
  /\ UNCHANGED <<changed, ignored>>
  /\ \/ warned' = warned /\ stage' = "reading"
     \/ stage' = "loaded" /\ warned' = FALSE
     \/ stage' = "loaded" /\ warned' = TRUE /\ policy' = DefaultConfig

LEMMA LoadIsLoading == Load => Loading
<1> SUFFICES ASSUME Load PROVE Loading
  OBVIOUS
<1> /\ UNCHANGED <<maxBytes, files, outFiles, used, omitted, truncated>>
    /\ UNCHANGED <<changed, ignored>>
  BY DEF Load, diffVars
<1>1. CASE FileFound
  BY <1>1 DEF FileFound, Loading
<1>2. CASE FileMissing
  BY <1>2 DEF FileMissing, Returns, Loading
<1>3. CASE FetchFails
  BY <1>3 DEF FetchFails, Returns, Loading
<1>4. CASE EndOfFile
  BY <1>4 DEF EndOfFile, RejectFile, Returns, Loading
<1>5. ASSUME NEW line \in Lines, ReadLine(line) \/ RejectLine(line)
      PROVE  Loading
  BY <1>5 DEF ReadLine, RejectLine, RejectFile, Returns, Loading
<1> QED
  BY <1>1, <1>2, <1>3, <1>4, <1>5 DEF Load, LoadPolicy

LEMMA InvLoad == Inv /\ Load => Inv'
<1> SUFFICES ASSUME Inv, Loading PROVE Inv'
  BY LoadIsLoading
<1>1. TypeOK' /\ FixedBefore'
  BY DEF Loading, Inv, TypeOK, FixedBefore, Position
<1>2. DefaultWhenWarned'
  BY DEF Loading, Inv, FixedBefore, DefaultWhenWarned
<1>3. WithinBudget' /\ CutIsTold' /\ CutsOnlyWhenFull' /\ Listed'
  BY DEF Loading, Inv, WithinBudget, CutIsTold, CutsOnlyWhenFull, Listed, Budget
<1> QED
  BY <1>1, <1>2, <1>3 DEF Inv

\* The limit and the changed files are given once, before any text is written.
LEMMA InvBegin == Inv /\ BeginInput => Inv'
<1> SUFFICES ASSUME Inv, BeginInput PROVE Inv'
  OBVIOUS
<1>1. /\ stage = "loaded" /\ files = <<>> /\ ignored = <<>> /\ outFiles = <<>>
      /\ used = 0 /\ omitted = 0 /\ ~truncated
  BY DEF Inv, BeginInput, FixedBefore
<1>2. TypeOK'
  BY <1>1, LimitsAssumption, ChangesAssumption DEF Inv, BeginInput, TypeOK
<1>3. FixedBefore' /\ DefaultWhenWarned'
  BY <1>1 DEF Inv, BeginInput, FixedBefore, DefaultWhenWarned
<1>4. WithinBudget'
  BY <1>1, <1>2, LimitsAssumption DEF BeginInput, TypeOK, WithinBudget, Budget
<1>5. CutIsTold' /\ CutsOnlyWhenFull' /\ Listed'
  BY <1>1 DEF Inv, BeginInput, CutIsTold, CutsOnlyWhenFull, Listed
<1> QED
  BY <1>2, <1>3, <1>4, <1>5 DEF Inv

\* While files are kept or ignored, no text is written; the default policy
\* ignores none.
LEMMA InvFilter == Inv /\ FilterIgnored => Inv'
<1> SUFFICES ASSUME Inv, FilterIgnored PROVE Inv'
  OBVIOUS
<1> DEFINE f == changed[Position]
<1>1. /\ stage = "filtering" /\ Position <= Len(changed)
      /\ UNCHANGED <<stage, policy, warned, changed>>
      /\ UNCHANGED <<maxBytes, outFiles, used, omitted, truncated>>
  BY DEF FilterIgnored, policyVars
<1>2. Position \in 1 .. Len(changed) /\ f \in Files
  BY <1>1 DEF Inv, TypeOK, Position
<1>3. \/ /\ MatchAny(policy.ignoreFiles, f.path)
         /\ ignored' = Append(ignored, f.path) /\ files' = files
      \/ files' = Append(files, f) /\ ignored' = ignored
  BY DEF FilterIgnored
<1>4. outFiles = <<>> /\ used = 0 /\ omitted = 0 /\ ~truncated
  <2>1. ~(Position > Len(changed))
    BY <1>1, <1>2 DEF Inv, TypeOK
  <2> QED
    BY <2>1 DEF Inv, FixedBefore
<1>5. TypeOK'
  <2>1. files' \in Seq(Files) /\ ignored' \in Seq(Paths)
    <3>1. f \in Files /\ f.path \in Paths
      BY <1>2 DEF Files
    <3>2. files \in Seq(Files) /\ ignored \in Seq(Paths)
      BY DEF Inv, TypeOK
    <3>3. Append(files, f) \in Seq(Files) /\ Append(ignored, f.path) \in Seq(Paths)
      BY <3>1, <3>2
    <3> QED
      BY <1>3, <3>2, <3>3
  <2> QED
    BY <1>1, <1>4, <2>1 DEF Inv, TypeOK
<1>6. FixedBefore'
  BY <1>1, <1>4 DEF FixedBefore
<1>7. DefaultWhenWarned'
  <2>1. policy = DefaultConfig => ignored' = ignored
    BY <1>3 DEF MatchAny, DefaultConfig
  <2> QED
    BY <1>1, <2>1 DEF Inv, DefaultWhenWarned
<1>8. WithinBudget'
  BY <1>1 DEF Inv, WithinBudget, Budget
<1>9. CutIsTold' /\ CutsOnlyWhenFull' /\ Listed'
  BY <1>1, <1>4 DEF CutIsTold, CutsOnlyWhenFull, Listed
<1> QED
  BY <1>5, <1>6, <1>7, <1>8, <1>9 DEF Inv

Effect(shown, cut) ==
  /\ outFiles' = Append(outFiles,
       [path |-> File.path, shown |-> shown, truncated |-> cut])
  /\ used' \in Nat /\ omitted' \in Nat
  /\ used <= used' /\ used' <= Budget
  /\ truncated' = (truncated \/ cut)
  /\ cut => used' + File.header >= Budget /\ omitted' > omitted
  /\ ~cut => shown = File.patch /\ omitted' = omitted

\* Every step of CompressDiff lists one more file, shown to some length, and
\* moves the counts by its bytes.
LEMMA InvCompress == Inv /\ Compress => Inv'
<1> SUFFICES ASSUME Inv, Compress PROVE Inv'
  OBVIOUS
<1> DEFINE n == Len(outFiles) + 1
<1>1. /\ stage = "filtering" /\ Position > Len(changed) /\ CompressFile
      /\ UNCHANGED <<stage, policy, warned, changed, ignored, maxBytes, files>>
  BY DEF Compress, CompressFile, OmitFile, CutFile, ShowFile, Emit, policyVars
<1>2. n \in DOMAIN files /\ File \in Files /\ File = files[n]
  BY <1>1 DEF Inv, TypeOK, CompressFile, OmitFile, CutFile, ShowFile, Emit, File
<1>3. File.path \in Paths /\ File.header \in Nat \ {0} /\ File.patch \in Nat
  BY <1>2 DEF Files
<1>4. Budget \in Nat \ {0} /\ Budget' = Budget /\ Room \in Int
  BY <1>1, <1>3, LimitsAssumption DEF Inv, TypeOK, Budget, Room
<1>5. PICK shown \in Nat, cut \in BOOLEAN : Effect(shown, cut)
  <2> used \in Nat /\ omitted \in Nat /\ used <= Budget /\ truncated \in BOOLEAN
    BY DEF Inv, TypeOK, WithinBudget
  <2>1. CASE OmitFile
    <3>1. used + File.header >= Budget
      BY <2>1, <1>3, <1>4 DEF OmitFile, HeaderFits, Room
    <3>2. truncated' = (truncated \/ TRUE)
      BY <2>1, Zenon DEF OmitFile
    <3>3. Effect(0, TRUE)
      BY <2>1, <3>1, <3>2, <1>3, <1>4 DEF OmitFile, Emit, Effect
    <3> QED
      BY <3>3
  <2>2. CASE CutFile
    <3>1. Room \in Nat /\ used + File.header + Room = Budget /\ File.patch > Room
      BY <2>2, <1>3, <1>4 DEF CutFile, HeaderFits, Room
    <3>2. truncated' = (truncated \/ TRUE)
      BY <2>2, Zenon DEF CutFile
    <3>3. /\ used' = used + File.header + Room
          /\ omitted' = omitted + (File.patch - Room)
          /\ outFiles' = Append(outFiles,
               [path |-> File.path, shown |-> Room, truncated |-> TRUE])
      BY <2>2 DEF CutFile, Emit
    <3>4. /\ used' = Budget /\ used' \in Nat /\ used <= used'
          /\ omitted' \in Nat /\ omitted' > omitted
      BY <3>1, <3>3, <1>3, <1>4
    <3>5. Effect(Room, TRUE)
      BY <3>2, <3>3, <3>4, <1>3, <1>4 DEF Effect
    <3> QED
      BY <3>1, <3>5
  <2>3. CASE ShowFile
    <3>1. used + File.header + File.patch <= Budget
      BY <2>3, <1>3, <1>4 DEF ShowFile, Room
    <3>2. Effect(File.patch, FALSE)
      BY <2>3, <3>1, <1>3, <1>4 DEF ShowFile, Emit, Effect
    <3> QED
      BY <3>2, <1>3
  <2> QED
    BY <1>1, <2>1, <2>2, <2>3 DEF CompressFile
<1>6. /\ Len(outFiles') = n /\ outFiles' # <<>>
      /\ \A i \in 1 .. Len(outFiles) : outFiles'[i] = outFiles[i]
      /\ outFiles'[n] = [path |-> File.path, shown |-> shown, truncated |-> cut]
      /\ outFiles' \in Seq([path : Paths, shown : Nat, truncated : BOOLEAN])
      /\ DOMAIN outFiles = 1 .. Len(outFiles) /\ DOMAIN outFiles' = 1 .. n
  BY <1>3, <1>5 DEF Inv, TypeOK, Effect
<1>7. TypeOK'
  BY <1>1, <1>2, <1>5, <1>6 DEF Inv, TypeOK, Effect
<1>8. FixedBefore' /\ DefaultWhenWarned'
  BY <1>1, <1>6 DEF Inv, FixedBefore, DefaultWhenWarned, Position
<1>9. WithinBudget'
  BY <1>4, <1>5 DEF WithinBudget, Effect
<1>10. Listed'
  BY <1>1, <1>2, <1>6 DEF Inv, Listed
<1>11. CutIsTold'
  <2>1. \A i \in 1 .. n :
          ~outFiles'[i].truncated => outFiles'[i].shown = files'[i].patch
    BY <1>1, <1>2, <1>5, <1>6 DEF Inv, CutIsTold, Effect
  <2>2. (\E i \in 1 .. n : outFiles'[i].truncated)
          <=> cut \/ \E i \in 1 .. Len(outFiles) : outFiles[i].truncated
    <3>1. outFiles'[n].truncated = cut
      BY <1>6
    <3>2. 1 .. n = (1 .. Len(outFiles)) \cup {n}
      BY DEF Inv, TypeOK
    <3> QED
      BY <3>1, <3>2, <1>6, Zenon
  <2>3. truncated' <=> \E i \in 1 .. n : outFiles'[i].truncated
    BY <2>2, <1>5, <1>6 DEF Inv, TypeOK, CutIsTold, Effect
  <2>4. truncated' <=> omitted' > 0
    BY <1>5 DEF Inv, TypeOK, CutIsTold, Effect
  <2> QED
    BY <2>1, <2>3, <2>4, <1>6 DEF CutIsTold
<1>12. CutsOnlyWhenFull'
  <2> SUFFICES ASSUME NEW i \in 1 .. n, outFiles'[i].truncated
               PROVE  used' + files[i].header >= Budget
    BY <1>1, <1>4, <1>6 DEF CutsOnlyWhenFull
  <2>1. used \in Nat /\ used' \in Nat /\ used <= used'
    BY <1>5 DEF Inv, TypeOK, Effect
  <2>2. CASE i = n
    BY <2>2, <1>2, <1>5, <1>6 DEF Effect
  <2>3. CASE i \in 1 .. Len(outFiles)
    <3>1. used + files[i].header >= Budget
      BY <2>3, <1>6 DEF Inv, CutsOnlyWhenFull
    <3>2. files[i].header \in Nat
      <4>1. i \in 1 .. Len(files) /\ files \in Seq(Files)
        BY <2>3, <1>2 DEF Inv, TypeOK
      <4>2. files[i] \in Files
        BY <4>1
      <4> QED
        BY <4>2 DEF Files
    <3> QED
      BY <2>1, <3>1, <3>2, <1>4
  <2> QED
    BY <2>2, <2>3 DEF Inv, TypeOK
<1> QED
  BY <1>7, <1>8, <1>9, <1>10, <1>11, <1>12 DEF Inv

LEMMA InvStutter == Inv /\ UNCHANGED vars => Inv'
BY DEF Inv, TypeOK, FixedBefore, Listed, DefaultWhenWarned, WithinBudget,
       CutIsTold, CutsOnlyWhenFull, Budget, Position, vars, policyVars, diffVars

LEMMA InvHolds == Spec => []Inv
<1>1. Inv /\ [Next]_vars => Inv'
  BY InvLoad, InvBegin, InvFilter, InvCompress, InvStutter DEF Next
<1> QED
  BY <1>1, InvInit, PTL DEF Spec

\* The types, for every file, pull request and limit: no patch is shown to a
\* negative length, which would be a slice out of range.
THEOREM ReviewInputTypeOK == Spec => []TypeOK
BY InvHolds, PTL DEF Inv

\* CompressDiff keeps to its budget whatever the sizes of headers and patches.
THEOREM DiffWithinBudget == Spec => []WithinBudget
BY InvHolds, PTL DEF Inv

\* CompressDiff marks every file it cuts, and tells of a truncation exactly
\* when there is one.
THEOREM DiffCutIsTold == Spec => []CutIsTold
BY InvHolds, PTL DEF Inv

\* CompressDiff cuts a file only for want of room.
THEOREM DiffCutsOnlyWhenFull == Spec => []CutsOnlyWhenFull
BY InvHolds, PTL DEF Inv

\* loadRepositoryPolicy and FilterIgnored: a policy that was rejected or could
\* not be read is the default one, which takes no file from the review.
THEOREM RejectedHidesNothing ==
  Spec => [](warned => policy = DefaultConfig /\ ignored = <<>>)
<1>1. Inv => (warned => policy = DefaultConfig /\ ignored = <<>>)
  BY DEF Inv, DefaultWhenWarned
<1> QED
  BY <1>1, InvHolds, PTL

-----------------------------------------------------------------------------
(* Parse reads what is written.  While it reads, its section, subsection   *)
(* and list are those that the lines so far stand in, and its configuration*)
(* holds what they assign.                                                 *)

Lead(indent) == {i \in Pairs : file[i].indent = indent}
SubLead      == {i \in Lead(2) : \A j \in Lead(0) : j < i}

Places ==
  /\ section = KeyAt(Lead(0)) /\ subsection = KeyAt(SubLead)
  /\ listKey # <<>> =>
       listKey \in ListKeys /\ Pairs # {} /\ listKey = KeyOf(Latest(Pairs))
  /\ \A i \in DOMAIN file : file[i].kind = "item" => \E j \in Pairs : j < i

Given(field) ==
  IF Assignments(field) = {} THEN DefaultConfig[field]
  ELSE Parsed(field, file[Latest(Assignments(field))].value)

ShortList(list) ==
  Len(ItemsOf(list)) <= Len(DefaultConfig[list]) \/ DefaultConfig[list] = <<>>

\* Every set of lines has a last one, and every rank in a list a line.
Bounded == \A S \in SUBSET DOMAIN file : S # {} => \E i \in S : \A j \in S : j <= i

UpTo(set, i) == {j \in set : j <= i}
Ranked ==
  \A list \in Lists : \A k \in 1 .. Cardinality(ItemLines(list)) :
    \E i \in ItemLines(list) : Cardinality(UpTo(ItemLines(list), i)) = k

ReadSoFar ==
  /\ Places /\ Ranked
  /\ \A field \in Scalars : cfg[field] = Given(field)
  /\ \A list \in Lists : ShortList(list) => cfg[list] = Written(list)

Reads ==
  /\ file \in Seq(Lines) /\ Bounded /\ DOMAIN cfg = Scalars \cup Lists
  /\ stage \in {"fetching", "reading"} => ReadSoFar
  /\ stage = "fetching" => file = <<>> /\ cfg = DefaultConfig
  /\ ScalarsAsWritten /\ ShortListsAsWritten

LEMMA FieldsKnown ==
  /\ DOMAIN DefaultConfig = Scalars \cup Lists
  /\ \A key : ScalarOf(key) \in Scalars \cup {"none"}
  /\ \A key \in ListKeys : ListOf(key) \in Lists /\ key # <<>>
  /\ Scalars \cap Lists = {} /\ "none" \notin Scalars
  /\ DefaultConfig["ignoreFiles"] = <<>>
  /\ \A list \in Lists : Len(DefaultConfig[list]) \in Nat
<1>1. DOMAIN DefaultConfig = Scalars \cup Lists
  BY DEF DefaultConfig, Scalars, Lists
<1>2. \A key : ScalarOf(key) \in Scalars \cup {"none"}
  BY DEF ScalarOf, Scalars
<1>3. \A key \in ListKeys : ListOf(key) \in Lists /\ key # <<>>
  BY DEF ListKeys, ListOf, Lists
<1>4. Scalars \cap Lists = {} /\ "none" \notin Scalars
  BY DEF Scalars, Lists
<1>5. DefaultConfig["ignoreFiles"] = <<>>
  BY DEF DefaultConfig
<1>6. \A list \in Lists : Len(DefaultConfig[list]) \in Nat
  <2>1. \A list \in Lists : DefaultConfig[list] \in {<<>>, DefaultRisky, DefaultTests}
    BY DEF DefaultConfig, Lists
  <2>2. Len(<<>>) \in Nat /\ Len(DefaultRisky) \in Nat /\ Len(DefaultTests) \in Nat
    BY DefaultsAssumption
  <2> QED
    BY <2>1, <2>2
<1> QED
  BY <1>1, <1>2, <1>3, <1>4, <1>5, <1>6

\* What a line at the end of the file changes of it.
OneMore(line, n) ==
  /\ file \in Seq(Lines) /\ Bounded /\ line \in Lines
  /\ n = Len(file) + 1 /\ file' = Append(file, line)

LEMMA OneMoreLine ==
  ASSUME NEW line, NEW n, OneMore(line, n)
  PROVE  /\ n \in Nat \ {0} /\ n \notin DOMAIN file /\ DOMAIN file' = DOMAIN file \cup {n}
         /\ file'[n] = line /\ file' \in Seq(Lines)
         /\ \A i \in DOMAIN file : i \in Nat /\ i < n /\ file'[i] = file[i]
         /\ DOMAIN file = 1 .. n - 1
BY DEF OneMore

\* The same without saying how the file is stored.
Grows(line, n) ==
  /\ n \in Nat \ {0} /\ n \notin DOMAIN file /\ DOMAIN file' = DOMAIN file \cup {n}
  /\ file'[n] = line /\ Bounded /\ DOMAIN file = 1 .. n - 1
  /\ \A i \in DOMAIN file : i \in Nat /\ i < n /\ file'[i] = file[i]

LEMMA MoreGrows ==
  ASSUME NEW line, NEW n, OneMore(line, n) PROVE Grows(line, n)
BY OneMoreLine DEF OneMore, Grows

LEMMA BoundedStays ==
  ASSUME NEW line, NEW n, Grows(line, n) PROVE Bounded'
<1> SUFFICES ASSUME NEW S \in SUBSET DOMAIN file', S # {}
             PROVE  \E i \in S : \A j \in S : j <= i
  BY DEF Bounded
<1>1. CASE n \in S
  BY <1>1 DEF Grows
<1>2. CASE n \notin S
  BY <1>2 DEF Grows, Bounded
<1> QED
  BY <1>1, <1>2

LEMMA LatestIn ==
  ASSUME Bounded, NEW S \in SUBSET DOMAIN file, S # {} PROVE Latest(S) \in S
BY DEF Bounded, Latest

LEMMA LatestIsLast ==
  ASSUME NEW line, NEW n, Grows(line, n), NEW S \in SUBSET DOMAIN file
  PROVE  Latest(S \cup {n}) = n
<1>1. \A i \in S : i \in Nat /\ i < n
  BY DEF Grows
<1>2. \A i \in S \cup {n} : (\A j \in S \cup {n} : j <= i) <=> i = n
  BY <1>1 DEF Grows
<1> QED
  BY <1>2 DEF Latest

LEMMA KeyAtStays ==
  ASSUME NEW line, NEW n, Grows(line, n), NEW S \in SUBSET DOMAIN file
  PROVE  KeyAt(S)' = KeyAt(S)
<1>1. CASE S = {}
  BY <1>1 DEF KeyAt
<1>2. CASE S # {}
  <2>1. Latest(S) \in DOMAIN file
    BY <1>2, LatestIn DEF Grows
  <2>2. file'[Latest(S)] = file[Latest(S)]
    BY <2>1 DEF Grows
  <2> QED
    BY <1>2, <2>2 DEF KeyAt
<1> QED
  BY <1>1, <1>2

LEMMA PairsGrow ==
  ASSUME NEW line, NEW n, Grows(line, n)
  PROVE  /\ Pairs \subseteq DOMAIN file
         /\ Pairs' = Pairs \cup {i \in {n} : line.kind = "pair"}
BY DEF Grows, Pairs

LEMMA LeadGrows ==
  ASSUME NEW line, NEW n, Grows(line, n), NEW indent
  PROVE  /\ Lead(indent) \subseteq DOMAIN file
         /\ Lead(indent)' =
              Lead(indent) \cup {i \in {n} : line.kind = "pair" /\ line.indent = indent}
BY PairsGrow DEF Grows, Lead, Pairs

LEMMA SubLeadGrows ==
  ASSUME NEW line, NEW n, Grows(line, n)
  PROVE  /\ SubLead \subseteq DOMAIN file
         /\ line.kind = "pair" /\ line.indent = 0 => SubLead' = {}
         /\ line.kind = "pair" /\ line.indent = 2 => SubLead' = SubLead \cup {n}
         /\ ~(line.kind = "pair" /\ line.indent \in {0, 2}) => SubLead' = SubLead
<1>1. /\ Lead(0) \subseteq DOMAIN file /\ Lead(2) \subseteq DOMAIN file
      /\ Lead(0)' = Lead(0) \cup {i \in {n} : line.kind = "pair" /\ line.indent = 0}
      /\ Lead(2)' = Lead(2) \cup {i \in {n} : line.kind = "pair" /\ line.indent = 2}
  BY LeadGrows
<1>2. \A i \in DOMAIN file : i \in Nat /\ i < n
  BY DEF Grows
<1>3. n \in Nat
  BY DEF Grows
<1> QED
  BY <1>1, <1>2, <1>3 DEF SubLead

\* Lines that follow do not change the key of a line.
LEMMA AboveStays ==
  ASSUME NEW line, NEW n, Grows(line, n), NEW i \in 1 .. n
  PROVE  /\ \A indent : Above(i, indent)' = Above(i, indent)
         /\ \A indent : Above(i, indent) \subseteq DOMAIN file
         /\ SectionOf(i)' = SectionOf(i) /\ SubsectionOf(i)' = SubsectionOf(i)
<1>1. ASSUME NEW indent
      PROVE  Above(i, indent)' = Above(i, indent) /\ Above(i, indent) \subseteq DOMAIN file
  BY PairsGrow DEF Grows, Above
<1>2. SectionOf(i)' = SectionOf(i)
  <2> DEFINE S == Above(i, 0)
  <2>1. S \in SUBSET DOMAIN file /\ S' = S
    BY <1>1
  <2> HIDE DEF S
  <2>2. SectionOf(i) = KeyAt(S) /\ SectionOf(i)' = KeyAt(S)'
    BY DEF SectionOf, S
  <2>3. PICK T \in SUBSET DOMAIN file : T = S
    BY <2>1
  <2>4. KeyAt(T)' = KeyAt(T)
    BY KeyAtStays
  <2> QED
    BY <2>1, <2>2, <2>3, <2>4
<1>3. SubsectionOf(i)' = SubsectionOf(i)
  <2> DEFINE S == {j \in Above(i, 2) : \A k \in Above(i, 0) : k < j}
  <2>1. S \in SUBSET DOMAIN file /\ S' = S
    BY <1>1
  <2> HIDE DEF S
  <2>2. SubsectionOf(i) = KeyAt(S) /\ SubsectionOf(i)' = KeyAt(S)'
    BY DEF SubsectionOf, S
  <2>3. PICK T \in SUBSET DOMAIN file : T = S
    BY <2>1
  <2>4. KeyAt(T)' = KeyAt(T)
    BY KeyAtStays
  <2> QED
    BY <2>1, <2>2, <2>3, <2>4
<1> QED
  BY <1>1, <1>2, <1>3

LEMMA KeyOfStays ==
  ASSUME NEW line, NEW n, Grows(line, n), NEW i \in DOMAIN file
  PROVE  KeyOf(i)' = KeyOf(i)
<1>1. i \in 1 .. n /\ file'[i] = file[i]
  BY DEF Grows
<1> QED
  BY <1>1, AboveStays DEF KeyOf

\* The key that Parse makes of a line is the one the file gives it.
LEMMA KeyOfLine ==
  ASSUME NEW line, NEW n, Grows(line, n), Places, line.kind = "pair", ~BadPair(line)
  PROVE  KeyOf(n)' = FullKey(line)
<1>1. n \in 1 .. n
  BY DEF Grows
<1>2. Above(n, 0) = Lead(0) /\ Above(n, 2) = Lead(2)
  BY DEF Grows, Above, Lead, Pairs
<1>3. SectionOf(n) = section /\ SubsectionOf(n) = subsection
  BY <1>2 DEF Places, SectionOf, SubsectionOf, SubLead
<1>4. SectionOf(n)' = section /\ SubsectionOf(n)' = subsection
  BY <1>1, <1>3, AboveStays
<1>5. line.indent \in {0, 2, 4}
  BY DEF BadPair
<1>6. KeyOf(n)' = CASE line.indent = 0 -> line.key
                    [] line.indent = 2 -> section \o line.key
                    [] OTHER           -> section \o subsection \o line.key
  BY <1>4 DEF KeyOf, Grows
<1> QED
  BY <1>5, <1>6 DEF FullKey

\* assignScalar: a setting is given by its last line.
LEMMA GivenStays ==
  ASSUME NEW line, NEW n, Grows(line, n), NEW field \in Scalars,
         ~(line.kind = "pair" /\ line.value # "" /\ ScalarOf(KeyOf(n)') = field)
  PROVE  Given(field)' = Given(field)
<1> DEFINE S == Assignments(field)
<1>1. S \in SUBSET DOMAIN file
  BY PairsGrow DEF Assignments
<1>2. S' = S
  <2>1. \A i \in DOMAIN file : KeyOf(i)' = KeyOf(i) /\ file'[i] = file[i]
    BY KeyOfStays DEF Grows
  <2>2. /\ Pairs' = Pairs \cup {i \in {n} : line.kind = "pair"} /\ Pairs \subseteq DOMAIN file
    BY PairsGrow
  <2>3. file'[n] = line
    BY DEF Grows
  <2>4. S' = {i \in Pairs' : file'[i].value # "" /\ ScalarOf(KeyOf(i)') = field}
    BY DEF Assignments
  <2>5. S = {i \in Pairs : file[i].value # "" /\ ScalarOf(KeyOf(i)) = field}
    BY DEF Assignments
  <2> QED
    BY <2>1, <2>2, <2>3, <2>4, <2>5
<1>3. Given(field) = IF S = {} THEN DefaultConfig[field]
                     ELSE Parsed(field, file[Latest(S)].value)
  BY DEF Given
<1>4. Given(field)' = IF S' = {} THEN DefaultConfig[field]
                      ELSE Parsed(field, file'[Latest(S')].value)
  BY DEF Given
<1>5. S # {} => file'[Latest(S)] = file[Latest(S)]
  <2>1. PICK T \in SUBSET DOMAIN file : T = S
    BY <1>1
  <2> HIDE DEF S
  <2>2. T # {} => Latest(T) \in T
    BY LatestIn DEF Grows
  <2> QED
    BY <2>1, <2>2 DEF Grows
<1> HIDE DEF S
<1>6. CASE S = {}
  BY <1>2, <1>3, <1>4, <1>6
<1>7. CASE S # {}
  <2>1. Given(field)' = Parsed(field, file'[Latest(S')].value)
    BY <1>2, <1>4, <1>7
  <2>2. Given(field) = Parsed(field, file[Latest(S)].value)
    BY <1>3, <1>7
  <2>3. Latest(S') = Latest(S)
    BY <1>2
  <2> QED
    BY <1>5, <1>7, <2>1, <2>2, <2>3
<1> QED
  BY <1>6, <1>7

LEMMA GivenAnew ==
  ASSUME NEW line, NEW n, Grows(line, n), NEW field \in Scalars,
         line.kind = "pair", line.value # "", ScalarOf(KeyOf(n)') = field
  PROVE  Given(field)' = Parsed(field, line.value)
<1> DEFINE S == Assignments(field)
<1>1. S \in SUBSET DOMAIN file
  BY PairsGrow DEF Assignments
<1>2. S' = S \cup {n}
  <2>1. \A i \in DOMAIN file : KeyOf(i)' = KeyOf(i) /\ file'[i] = file[i]
    BY KeyOfStays DEF Grows
  <2>2. /\ Pairs' = Pairs \cup {i \in {n} : line.kind = "pair"} /\ Pairs \subseteq DOMAIN file
    BY PairsGrow
  <2>3. file'[n] = line
    BY DEF Grows
  <2>4. S' = {i \in Pairs' : file'[i].value # "" /\ ScalarOf(KeyOf(i)') = field}
    BY DEF Assignments
  <2>5. S = {i \in Pairs : file[i].value # "" /\ ScalarOf(KeyOf(i)) = field}
    BY DEF Assignments
  <2> QED
    BY <2>1, <2>2, <2>3, <2>4, <2>5
<1>3. Given(field)' = IF S' = {} THEN DefaultConfig[field]
                      ELSE Parsed(field, file'[Latest(S')].value)
  BY DEF Given
<1>4. Latest(S') = n
  <2>1. PICK T \in SUBSET DOMAIN file : T = S
    BY <1>1
  <2> HIDE DEF S
  <2>2. Latest(T \cup {n}) = n
    BY LatestIsLast
  <2> QED
    BY <1>2, <2>1, <2>2
<1>5. S' # {} /\ file'[n] = line
  BY <1>2 DEF Grows
<1> HIDE DEF S
<1> QED
  BY <1>3, <1>4, <1>5

-----------------------------------------------------------------------------
(* Lists.                                                                  *)

KeyBefore(i) == KeyOf(Latest({j \in Pairs : j < i}))

LEMMA ItemLinesAre ==
  \A list : ItemLines(list) =
    {i \in DOMAIN file : /\ file[i].kind = "item"
                         /\ KeyBefore(i) \in ListKeys /\ ListOf(KeyBefore(i)) = list}
BY DEF ItemLines, KeyBefore

LEMMA ItemLinesNextAre ==
  \A list : ItemLines(list)' =
    {i \in DOMAIN file' : /\ file'[i].kind = "item"
                          /\ KeyBefore(i)' \in ListKeys /\ ListOf(KeyBefore(i)') = list}
BY DEF ItemLines, KeyBefore

LEMMA KeyBeforeStays ==
  ASSUME NEW line, NEW n, Grows(line, n), NEW i \in 1 .. n, \E j \in Pairs : j < i
  PROVE  KeyBefore(i)' = KeyBefore(i)
<1> DEFINE S == {j \in Pairs : j < i}
<1>1. S \in SUBSET DOMAIN file /\ S # {}
  BY PairsGrow
<1>2. S' = S
  BY PairsGrow DEF Grows
<1>3. PICK T \in SUBSET DOMAIN file : T = S
  BY <1>1
<1>4. KeyBefore(i) = KeyOf(Latest(S)) /\ KeyBefore(i)' = KeyOf(Latest(S))'
  BY DEF KeyBefore
<1> HIDE DEF S
<1>5. Latest(T) \in DOMAIN file
  BY <1>1, <1>3, LatestIn DEF Grows
<1>6. PICK k \in DOMAIN file : k = Latest(T)
  BY <1>5
<1>7. KeyOf(k)' = KeyOf(k)
  BY KeyOfStays
<1> QED
  BY <1>2, <1>3, <1>4, <1>6, <1>7

LEMMA KeyBeforeLine ==
  ASSUME NEW line, NEW n, Grows(line, n), Places, listKey # <<>>
  PROVE  (\E j \in Pairs : j < n) /\ KeyBefore(n)' = listKey
<1>1. Pairs # {} /\ listKey = KeyOf(Latest(Pairs))
  BY DEF Places
<1>2. n \in 1 .. n
  BY DEF Grows
<1>3. {j \in Pairs : j < n} = Pairs
  BY PairsGrow DEF Grows
<1>4. KeyBefore(n) = listKey
  BY <1>1, <1>3 DEF KeyBefore
<1>5. \E j \in Pairs : j < n
  BY <1>1, <1>3
<1> QED
  BY <1>2, <1>4, <1>5, KeyBeforeStays

\* An item belongs to the list being read.
LEMMA ItemLinesGrow ==
  ASSUME NEW line, NEW n, Grows(line, n), Places, line.kind = "item" => ~BadItem(line),
         NEW list \in Lists
  PROVE  /\ ItemLines(list) \subseteq DOMAIN file
         /\ ItemLines(list)' = ItemLines(list) \cup
              {i \in {n} : line.kind = "item" /\ ListOf(listKey) = list}
<1>1. ASSUME NEW i \in DOMAIN file, file[i].kind = "item"
      PROVE  KeyBefore(i)' = KeyBefore(i)
  <2>1. i \in 1 .. n /\ \E j \in Pairs : j < i
    BY <1>1 DEF Grows, Places
  <2> QED
    BY <2>1, KeyBeforeStays
<1>2. ASSUME line.kind = "item"
      PROVE  KeyBefore(n)' = listKey /\ listKey \in ListKeys
  BY <1>2, KeyBeforeLine DEF BadItem, Places
<1>3. /\ DOMAIN file' = DOMAIN file \cup {n} /\ file'[n] = line /\ n \notin DOMAIN file
      /\ \A i \in DOMAIN file : file'[i] = file[i]
  BY DEF Grows
<1> QED
  BY <1>1, <1>2, <1>3, ItemLinesAre, ItemLinesNextAre

LEMMA CountGrows ==
  ASSUME NEW line, NEW n, Grows(line, n), NEW S \in SUBSET DOMAIN file
  PROVE  /\ IsFiniteSet(S) /\ Cardinality(S) \in Nat
         /\ Cardinality(S \cup {n}) = Cardinality(S) + 1
         /\ \A i \in S : UpTo(S \cup {n}, i) = UpTo(S, i)
         /\ UpTo(S \cup {n}, n) = S \cup {n}
<1>1. DOMAIN file = 1 .. n - 1 /\ n \in Nat \ {0} /\ n \notin DOMAIN file
  BY DEF Grows
<1>2. IsFiniteSet(1 .. n - 1)
  BY <1>1, FS_Interval
<1>3. IsFiniteSet(S)
  BY <1>1, <1>2, FS_Subset
<1>4. Cardinality(S) \in Nat
  BY <1>3, FS_CardinalityType
<1>5. Cardinality(S \cup {n}) = Cardinality(S) + 1
  BY <1>1, <1>3, FS_AddElement
<1>6. \A i \in S : UpTo(S \cup {n}, i) = UpTo(S, i)
  BY <1>1 DEF UpTo
<1>7. UpTo(S \cup {n}, n) = S \cup {n}
  BY <1>1 DEF UpTo
<1> QED
  BY <1>3, <1>4, <1>5, <1>6, <1>7

LEMMA NthIs ==
  ASSUME NEW S, NEW k, \E i \in S : Cardinality(UpTo(S, i)) = k
  PROVE  Nth(S, k) \in S /\ Cardinality(UpTo(S, Nth(S, k))) = k
BY DEF Nth, UpTo

LEMMA NthStays ==
  ASSUME NEW line, NEW n, Grows(line, n), NEW S \in SUBSET DOMAIN file,
         NEW k \in 1 .. Cardinality(S)
  PROVE  Nth(S \cup {n}, k) = Nth(S, k)
<1>1. /\ Cardinality(S) \in Nat /\ Cardinality(S \cup {n}) = Cardinality(S) + 1
      /\ \A i \in S : UpTo(S \cup {n}, i) = UpTo(S, i)
      /\ UpTo(S \cup {n}, n) = S \cup {n}
  BY CountGrows
<1>2. Cardinality(UpTo(S \cup {n}, n)) # k
  BY <1>1
<1>3. \A i : (i \in S \cup {n} /\ Cardinality(UpTo(S \cup {n}, i)) = k)
               <=> (i \in S /\ Cardinality(UpTo(S, i)) = k)
  <2> TAKE i
  <2>1. CASE i \in S
    BY <1>1, <2>1
  <2>2. CASE i = n
    <3>1. n \notin S
      BY DEF Grows
    <3> QED
      BY <1>2, <2>2, <3>1
  <2> QED
    BY <2>1, <2>2
<1>4. Nth(S \cup {n}, k) = CHOOSE i : i \in S \cup {n} /\ Cardinality(UpTo(S \cup {n}, i)) = k
  BY DEF Nth, UpTo
<1>5. Nth(S, k) = CHOOSE i : i \in S /\ Cardinality(UpTo(S, i)) = k
  BY DEF Nth, UpTo
<1> QED
  BY <1>3, <1>4, <1>5

LEMMA NthNew ==
  ASSUME NEW line, NEW n, Grows(line, n), NEW S \in SUBSET DOMAIN file
  PROVE  Nth(S \cup {n}, Cardinality(S) + 1) = n
<1>1. /\ Cardinality(S) \in Nat /\ Cardinality(S \cup {n}) = Cardinality(S) + 1
      /\ \A i \in S : UpTo(S \cup {n}, i) = UpTo(S, i)
      /\ UpTo(S \cup {n}, n) = S \cup {n}
  BY CountGrows
<1>2. ASSUME NEW i \in S PROVE Cardinality(UpTo(S, i)) # Cardinality(S) + 1
  <2>1. IsFiniteSet(S)
    BY CountGrows
  <2>2. UpTo(S, i) \subseteq S
    BY DEF UpTo
  <2>3. Cardinality(UpTo(S, i)) <= Cardinality(S) /\ Cardinality(UpTo(S, i)) \in Nat
    BY <2>1, <2>2, FS_Subset, FS_CardinalityType
  <2> QED
    BY <1>1, <2>3
<1>3. Nth(S \cup {n}, Cardinality(S) + 1) \in S \cup {n}
      /\ Cardinality(UpTo(S \cup {n}, Nth(S \cup {n}, Cardinality(S) + 1)))
           = Cardinality(S) + 1
  BY <1>1, NthIs
<1> QED
  BY <1>1, <1>2, <1>3

LEMMA RankedStays ==
  ASSUME NEW line, NEW n, Grows(line, n), Places, Ranked,
         line.kind = "item" => ~BadItem(line)
  PROVE  Ranked'
<1> SUFFICES ASSUME NEW list \in Lists, NEW k \in 1 .. Cardinality(ItemLines(list)')
             PROVE  \E i \in ItemLines(list)' : Cardinality(UpTo(ItemLines(list)', i)) = k
  BY DEF Ranked, UpTo
<1> DEFINE S == ItemLines(list)
<1>1. S \in SUBSET DOMAIN file /\ (S' = S \/ S' = S \cup {n})
  BY ItemLinesGrow
<1>2. \A m \in 1 .. Cardinality(S) : \E i \in S : Cardinality(UpTo(S, i)) = m
  BY DEF Ranked
<1>3. PICK T \in SUBSET DOMAIN file : T = S
  BY <1>1
<1>4. k \in 1 .. Cardinality(S')
  OBVIOUS
<1> SUFFICES \E i \in S' : Cardinality(UpTo(S', i)) = k
  OBVIOUS
<1> HIDE DEF S
<1>5. CASE S' = S
  BY <1>2, <1>4, <1>5
<1>6. CASE S' = S \cup {n}
  <2>1. /\ Cardinality(T) \in Nat /\ Cardinality(T \cup {n}) = Cardinality(T) + 1
        /\ \A i \in T : UpTo(T \cup {n}, i) = UpTo(T, i)
        /\ UpTo(T \cup {n}, n) = T \cup {n}
    BY CountGrows
  <2>2. S' = T \cup {n}
    BY <1>3, <1>6
  <2>3. CASE k = Cardinality(T) + 1
    BY <2>1, <2>2, <2>3
  <2>4. CASE k \in 1 .. Cardinality(T)
    <3>1. PICK i \in T : Cardinality(UpTo(T, i)) = k
      BY <1>2, <1>3, <2>4
    <3> QED
      BY <2>1, <2>2, <3>1
  <2>5. k \in 1 .. Cardinality(T) + 1
    BY <1>4, <2>1, <2>2
  <2> QED
    BY <2>1, <2>3, <2>4, <2>5
<1> QED
  BY <1>1, <1>5, <1>6

LEMMA ItemsTyped ==
  ASSUME NEW line, NEW n, Grows(line, n), file \in Seq(Lines), Ranked, NEW list \in Lists,
         ItemLines(list) \subseteq DOMAIN file
  PROVE  /\ ItemsOf(list) \in Seq(STRING) /\ Len(ItemsOf(list)) = Cardinality(ItemLines(list))
         /\ Cardinality(ItemLines(list)) \in Nat
         /\ \A k \in 1 .. Cardinality(ItemLines(list)) :
              /\ Nth(ItemLines(list), k) \in DOMAIN file
              /\ ItemsOf(list)[k] = file[Nth(ItemLines(list), k)].value
<1> DEFINE S == ItemLines(list)
<1>1. S \in SUBSET DOMAIN file
  OBVIOUS
<1>2. Cardinality(S) \in Nat
  BY <1>1, CountGrows
<1>3. \A k \in 1 .. Cardinality(S) : Nth(S, k) \in DOMAIN file
  BY NthIs DEF Ranked
<1>4. \A i \in DOMAIN file : file[i].value \in STRING
  BY LinesAssumption
<1>5. ItemsOf(list) = [k \in 1 .. Cardinality(S) |-> file[Nth(S, k)].value]
  BY DEF ItemsOf
<1> HIDE DEF S
<1>6. \A k \in 1 .. Cardinality(S) : file[Nth(S, k)].value \in STRING
  BY <1>3, <1>4
<1>7. ItemsOf(list) \in Seq(STRING) /\ Len(ItemsOf(list)) = Cardinality(S)
  BY <1>2, <1>5, <1>6
<1>8. \A k \in 1 .. Cardinality(S) : ItemsOf(list)[k] = file[Nth(S, k)].value
  BY <1>5
<1> QED
  BY <1>2, <1>3, <1>7, <1>8 DEF S

LEMMA ItemsStay ==
  ASSUME NEW line, NEW n, Grows(line, n), file \in Seq(Lines), Ranked, NEW list \in Lists,
         ItemLines(list) \subseteq DOMAIN file, ItemLines(list)' = ItemLines(list)
  PROVE  ItemsOf(list)' = ItemsOf(list)
<1> DEFINE S == ItemLines(list)
<1>1. \A k \in 1 .. Cardinality(S) : file'[Nth(S, k)] = file[Nth(S, k)]
  BY ItemsTyped DEF Grows
<1>2. /\ ItemsOf(list) = [k \in 1 .. Cardinality(S) |-> file[Nth(S, k)].value]
      /\ ItemsOf(list)' = [k \in 1 .. Cardinality(S') |-> file'[Nth(S', k)].value]
  BY DEF ItemsOf
<1>3. S' = S
  OBVIOUS
<1> HIDE DEF S
<1>4. ItemsOf(list)' = [k \in 1 .. Cardinality(S) |-> file'[Nth(S, k)].value]
  BY <1>2, <1>3
<1> QED
  BY <1>1, <1>2, <1>4

LEMMA ItemsGrow ==
  ASSUME NEW line, NEW n, Grows(line, n), file \in Seq(Lines), line.value \in STRING, Ranked,
         NEW list \in Lists,
         ItemLines(list) \subseteq DOMAIN file, ItemLines(list)' = ItemLines(list) \cup {n}
  PROVE  ItemsOf(list)' = Append(ItemsOf(list), line.value)
<1> DEFINE S == ItemLines(list)
           m == Cardinality(S)
           t == ItemsOf(list)
<1>1. /\ t \in Seq(STRING) /\ Len(t) = m /\ m \in Nat
      /\ \A k \in 1 .. m : Nth(S, k) \in DOMAIN file /\ t[k] = file[Nth(S, k)].value
  BY ItemsTyped
<1>2. PICK T \in SUBSET DOMAIN file : T = S
  OBVIOUS
<1>3. Cardinality(T \cup {n}) = Cardinality(T) + 1
  BY CountGrows
<1>4. \A k \in 1 .. Cardinality(T) : Nth(T \cup {n}, k) = Nth(T, k)
  BY NthStays
<1>5. Nth(T \cup {n}, Cardinality(T) + 1) = n
  BY NthNew
<1>6. ItemsOf(list)' = [k \in 1 .. Cardinality(S') |-> file'[Nth(S', k)].value]
  BY DEF ItemsOf
<1>7. S' = T \cup {n}
  BY <1>2
<1>8. ItemsOf(list)' = [k \in 1 .. m + 1 |-> file'[Nth(T \cup {n}, k)].value]
  BY <1>2, <1>3, <1>6, <1>7
<1>9. \A k \in 1 .. m : file'[Nth(T \cup {n}, k)].value = t[k]
  BY <1>1, <1>2, <1>4 DEF Grows
<1>10. file'[Nth(T \cup {n}, m + 1)].value = line.value
  BY <1>2, <1>5 DEF Grows
<1> HIDE DEF S, m, t
<1>11. ItemsOf(list)' = [k \in 1 .. m + 1 |-> IF k = m + 1 THEN line.value ELSE t[k]]
  <2>1. ASSUME NEW k \in 1 .. m + 1
        PROVE  file'[Nth(T \cup {n}, k)].value = IF k = m + 1 THEN line.value ELSE t[k]
    <3>1. CASE k = m + 1
      BY <1>10, <3>1
    <3>2. CASE k # m + 1
      <4>1. k \in 1 .. m
        BY <1>1, <3>2
      <4> QED
        BY <1>9, <3>2, <4>1
    <3> QED
      BY <3>1, <3>2
  <2> QED
    BY <1>8, <2>1
<1>12. Append(t, line.value) = [k \in 1 .. m + 1 |-> IF k = m + 1 THEN line.value ELSE t[k]]
  BY <1>1
<1> QED
  BY <1>11, <1>12 DEF t

-----------------------------------------------------------------------------
(* One line.                                                               *)

LEMMA PlacesStay ==
  ASSUME NEW line, NEW n, Grows(line, n), Places, ReadBlank(line) \/ ReadItem(line)
  PROVE  Places'
<1>1. line.kind # "pair" /\ UNCHANGED <<section, subsection, listKey>>
  BY DEF ReadBlank, ReadItem
<1>2. Pairs' = Pairs /\ Pairs \subseteq DOMAIN file
  BY <1>1, PairsGrow
<1>3. Lead(0)' = Lead(0) /\ Lead(0) \subseteq DOMAIN file /\ SubLead' = SubLead
      /\ SubLead \subseteq DOMAIN file
  BY <1>1, LeadGrows, SubLeadGrows
<1>4. section' = KeyAt(Lead(0))' /\ subsection' = KeyAt(SubLead)'
  <2>1. PICK S \in SUBSET DOMAIN file, T \in SUBSET DOMAIN file : S = Lead(0) /\ T = SubLead
    BY <1>3
  <2>2. KeyAt(S)' = KeyAt(S) /\ KeyAt(T)' = KeyAt(T)
    BY KeyAtStays
  <2> QED
    BY <1>1, <1>3, <2>1, <2>2 DEF Places
<1>5. ASSUME listKey' # <<>>
      PROVE  listKey' \in ListKeys /\ Pairs' # {} /\ listKey' = KeyOf(Latest(Pairs))'
  <2>1. listKey \in ListKeys /\ Pairs # {} /\ listKey = KeyOf(Latest(Pairs))
    BY <1>1, <1>5 DEF Places
  <2>2. PICK i \in DOMAIN file : i = Latest(Pairs)
    BY <1>2, <2>1, LatestIn DEF Grows
  <2>3. KeyOf(i)' = KeyOf(i)
    BY KeyOfStays
  <2> QED
    BY <1>1, <1>2, <2>1, <2>2, <2>3
<1>6. ASSUME NEW i \in DOMAIN file', file'[i].kind = "item" PROVE \E j \in Pairs' : j < i
  <2>1. CASE i \in DOMAIN file
    BY <1>2, <1>6, <2>1 DEF Grows, Places
  <2>2. CASE i = n
    <3>1. listKey # <<>>
      BY <1>6, <2>2 DEF Grows, ReadBlank, ReadItem, BadItem
    <3> QED
      BY <1>2, <2>2, <3>1, KeyBeforeLine
  <2> QED
    BY <2>1, <2>2 DEF Grows
<1> QED
  BY <1>4, <1>5, <1>6 DEF Places

LEMMA PlacesMove ==
  ASSUME NEW line, NEW n, Grows(line, n), Places, ReadPair(line)
  PROVE  Places'
<1>1. line.kind = "pair" /\ ~BadPair(line) /\ line.indent \in {0, 2, 4}
  BY DEF ReadPair, BadPair
<1>2. Pairs' = Pairs \cup {n} /\ Pairs \subseteq DOMAIN file
  BY <1>1, PairsGrow
<1>3. section' = KeyAt(Lead(0))'
  <2>1. PICK S \in SUBSET DOMAIN file : S = Lead(0)
    BY LeadGrows
  <2>2. CASE line.indent = 0
    <3>1. Lead(0)' = S \cup {n} /\ Latest(S \cup {n}) = n
      BY <1>1, <2>1, <2>2, LeadGrows, LatestIsLast
    <3>2. KeyAt(Lead(0))' = line.key
      BY <3>1 DEF KeyAt, Grows
    <3> QED
      BY <2>2, <3>2 DEF ReadPair
  <2>3. CASE line.indent # 0
    <3>1. Lead(0)' = S
      BY <2>1, <2>3, LeadGrows
    <3>2. KeyAt(S)' = KeyAt(S)
      BY KeyAtStays
    <3>3. section' = section
      BY <2>3, Zenon DEF ReadPair
    <3> QED
      BY <2>1, <3>1, <3>2, <3>3 DEF Places
  <2> QED
    BY <2>2, <2>3
<1>4. subsection' = KeyAt(SubLead)'
  <2>1. PICK S \in SUBSET DOMAIN file : S = SubLead
    BY SubLeadGrows
  <2>2. CASE line.indent = 0
    <3>1. SubLead' = {} /\ subsection' = <<>>
      BY <1>1, <2>2, SubLeadGrows DEF ReadPair, Subsection
    <3> QED
      BY <3>1 DEF KeyAt
  <2>3. CASE line.indent = 2
    <3>1. SubLead' = S \cup {n} /\ Latest(S \cup {n}) = n
      BY <1>1, <2>1, <2>3, SubLeadGrows, LatestIsLast
    <3>2. KeyAt(SubLead)' = line.key
      BY <3>1 DEF KeyAt, Grows
    <3>3. subsection' = line.key
      <4>1. Subsection(line) = line.key
        BY <2>3 DEF Subsection
      <4> QED
        BY <4>1, Zenon DEF ReadPair
    <3> QED
      BY <3>2, <3>3
  <2>4. CASE line.indent = 4
    <3>1. SubLead' = S /\ KeyAt(S)' = KeyAt(S)
      BY <2>1, <2>4, SubLeadGrows, KeyAtStays
    <3>2. subsection' = subsection
      <4>1. Subsection(line) = subsection
        BY <2>4 DEF Subsection
      <4> QED
        BY <4>1, Zenon DEF ReadPair
    <3> QED
      BY <2>1, <3>1, <3>2 DEF Places
  <2> QED
    BY <1>1, <2>2, <2>3, <2>4
<1>5. listKey' # <<>> => listKey' \in ListKeys /\ Pairs' # {} /\ listKey' = KeyOf(Latest(Pairs))'
  <2>1. PICK S \in SUBSET DOMAIN file : S = Pairs
    BY <1>2
  <2>2. Latest(S \cup {n}) = n /\ KeyOf(n)' = FullKey(line)
    BY <1>1, LatestIsLast, KeyOfLine
  <2>3. KeyOf(Latest(Pairs))' = FullKey(line)
    BY <1>2, <2>1, <2>2
  <2> QED
    BY <1>2, <2>3 DEF ReadPair, OpensList
<1>6. ASSUME NEW i \in DOMAIN file', file'[i].kind = "item" PROVE \E j \in Pairs' : j < i
  BY <1>1, <1>2, <1>6 DEF Grows, Places
<1> QED
  BY <1>3, <1>4, <1>5, <1>6 DEF Places

LEMMA CfgSet ==
  ASSUME NEW c, NEW f \in DOMAIN c, NEW v
  PROVE  /\ DOMAIN [c EXCEPT ![f] = v] = DOMAIN c
         /\ \A g \in DOMAIN c : [c EXCEPT ![f] = v][g] = IF g = f THEN v ELSE c[g]
OBVIOUS

\* What a line does to the configuration.
Appended(text) ==
  Append(IF Len(cfg[ListOf(listKey)]) = Len(DefaultConfig[ListOf(listKey)]) THEN <<>>
         ELSE cfg[ListOf(listKey)], text)

LEMMA ItemSets ==
  ASSUME NEW line, ReadItem(line), Places, DOMAIN cfg = Scalars \cup Lists
  PROVE  /\ ListOf(listKey) \in Lists /\ DOMAIN cfg' = DOMAIN cfg
         /\ \A f \in DOMAIN cfg :
              cfg'[f] = IF f = ListOf(listKey) THEN Appended(line.value) ELSE cfg[f]
<1>1. ListOf(listKey) \in Lists
  BY FieldsKnown DEF ReadItem, BadItem, Places
<1>2. cfg' = [cfg EXCEPT ![ListOf(listKey)] = Appended(line.value)]
  BY DEF ReadItem, AppendList, Appended
<1>3. ListOf(listKey) \in DOMAIN cfg
  BY <1>1
<1> QED
  BY <1>1, <1>2, <1>3, CfgSet

LEMMA PairSets ==
  ASSUME NEW line, ReadPair(line), DOMAIN cfg = Scalars \cup Lists
  PROVE  /\ DOMAIN cfg' = DOMAIN cfg
         /\ \A f \in DOMAIN cfg :
              cfg'[f] = IF line.value # "" /\ f = ScalarOf(FullKey(line)) /\ f # "none"
                        THEN Parsed(f, line.value) ELSE cfg[f]
<1> DEFINE s == ScalarOf(FullKey(line))
<1>1. s \in Scalars \cup {"none"}
  BY FieldsKnown
<1>2. cfg' = IF line.value = "" \/ s = "none" THEN cfg
             ELSE [cfg EXCEPT ![s] = Parsed(s, line.value)]
  BY DEF ReadPair, AssignScalar
<1> HIDE DEF s
<1>3. CASE line.value = "" \/ s = "none"
  <2>1. cfg' = cfg
    BY <1>2, <1>3
  <2> QED
    BY <1>3, <2>1 DEF s
<1>4. CASE line.value # "" /\ s # "none"
  <2>1. s \in DOMAIN cfg
    BY <1>1, <1>4
  <2>2. cfg' = [cfg EXCEPT ![s] = Parsed(s, line.value)]
    BY <1>2, <1>4
  <2>3. /\ DOMAIN cfg' = DOMAIN cfg
        /\ \A f \in DOMAIN cfg : cfg'[f] = IF f = s THEN Parsed(s, line.value) ELSE cfg[f]
    BY <2>1, <2>2, CfgSet
  <2> QED
    BY <1>4, <2>3 DEF s
<1> QED
  BY <1>3, <1>4

LEMMA ScalarsStep ==
  ASSUME NEW line, NEW n, Grows(line, n), ReadSoFar, DOMAIN cfg = Scalars \cup Lists,
         ReadBlank(line) \/ ReadItem(line) \/ ReadPair(line), NEW field \in Scalars
  PROVE  cfg'[field] = Given(field)'
<1>1. cfg[field] = Given(field) /\ Places /\ field \in DOMAIN cfg
      /\ field \notin Lists /\ field # "none"
  BY FieldsKnown DEF ReadSoFar
<1>2. CASE ReadBlank(line)
  BY <1>1, <1>2, GivenStays DEF ReadBlank
<1>3. CASE ReadItem(line)
  <2>1. cfg'[field] = cfg[field]
    BY <1>1, <1>3, ItemSets
  <2>2. Given(field)' = Given(field)
    BY <1>3, GivenStays DEF ReadItem
  <2> QED
    BY <1>1, <2>1, <2>2
<1>4. CASE ReadPair(line)
  <2>1. line.kind = "pair" /\ KeyOf(n)' = FullKey(line)
    BY <1>1, <1>4, KeyOfLine DEF ReadPair
  <2>2. cfg'[field] = IF line.value # "" /\ field = ScalarOf(FullKey(line))
                      THEN Parsed(field, line.value) ELSE cfg[field]
    BY <1>1, <1>4, PairSets
  <2>3. CASE line.value # "" /\ field = ScalarOf(FullKey(line))
    <3>1. Given(field)' = Parsed(field, line.value)
      BY <2>1, <2>3, GivenAnew
    <3> QED
      BY <2>2, <2>3, <3>1
  <2>4. CASE ~(line.value # "" /\ field = ScalarOf(FullKey(line)))
    <3>1. Given(field)' = Given(field)
      BY <2>1, <2>4, GivenStays
    <3> QED
      BY <1>1, <2>2, <2>4, <3>1
  <2> QED
    BY <2>3, <2>4
<1> QED
  BY <1>2, <1>3, <1>4

LEMMA ListsStep ==
  ASSUME NEW line \in Lines, NEW n, Grows(line, n), ReadSoFar, file \in Seq(Lines),
         DOMAIN cfg = Scalars \cup Lists,
         ReadBlank(line) \/ ReadItem(line) \/ ReadPair(line),
         NEW list \in Lists, ShortList(list)'
  PROVE  cfg'[list] = Written(list)'
<1>1. /\ Places /\ Ranked /\ list \in DOMAIN cfg
      /\ ShortList(list) => cfg[list] = Written(list)
  BY DEF ReadSoFar
<1>2. /\ line.kind = "item" => ~BadItem(line)
      /\ line.kind = "item" => ReadItem(line)
  BY DEF ReadBlank, ReadItem, ReadPair
<1>3. /\ ItemLines(list) \subseteq DOMAIN file
      /\ ItemLines(list)' = ItemLines(list) \cup
           {i \in {n} : line.kind = "item" /\ ListOf(listKey) = list}
  BY <1>1, <1>2, ItemLinesGrow
<1>4. CASE line.kind = "item" /\ ListOf(listKey) = list
  <2> DEFINE t == ItemsOf(list)
             d == DefaultConfig[list]
  <2>1. ItemsOf(list)' = Append(t, line.value) /\ t \in Seq(STRING)
    <3>1. line.value \in STRING
      BY LinesAssumption
    <3>2. ItemLines(list)' = ItemLines(list) \cup {n}
      BY <1>3, <1>4
    <3> QED
      BY <1>1, <1>3, <3>1, <3>2, ItemsGrow, ItemsTyped
  <2>2. cfg'[list] = Append(IF Len(cfg[list]) = Len(d) THEN <<>> ELSE cfg[list], line.value)
    BY <1>1, <1>2, <1>4, ItemSets DEF Appended
  <2>3. Len(d) \in Nat
    BY FieldsKnown
  <2>4. Len(Append(t, line.value)) <= Len(d) \/ d = <<>>
    BY <2>1 DEF ShortList
  <2>5. /\ Len(t) \in Nat /\ Len(Append(t, line.value)) = Len(t) + 1
        /\ Append(t, line.value) # <<>>
    BY <2>1
  <2>6. Len(t) < Len(d) \/ d = <<>>
    BY <2>3, <2>4, <2>5
  <2>7. cfg[list] = IF t = <<>> THEN d ELSE t
    <3>1. ShortList(list)
      BY <2>3, <2>5, <2>6 DEF ShortList
    <3> QED
      BY <1>1, <3>1 DEF Written
  <2>8. Written(list)' = Append(t, line.value)
    BY <2>1, <2>5 DEF Written
  <2> HIDE DEF t, d
  <2>9. CASE t = <<>>
    BY <2>2, <2>7, <2>8, <2>9
  <2>10. CASE t # <<>>
    <3>1. Len(t) # 0
      BY <2>1, <2>10
    <3>2. d = <<>> => Len(d) = 0
      OBVIOUS
    <3>3. Len(t) # Len(d)
      BY <2>3, <2>5, <2>6, <3>1, <3>2
    <3> QED
      BY <2>2, <2>7, <2>8, <2>10, <3>3
  <2> QED
    BY <2>9, <2>10
<1>5. CASE ~(line.kind = "item" /\ ListOf(listKey) = list)
  <2>1. ItemLines(list)' = ItemLines(list)
    BY <1>3, <1>5
  <2>2. ItemsOf(list)' = ItemsOf(list)
    BY <1>1, <1>3, <2>1, ItemsStay
  <2>3. Written(list)' = Written(list) /\ ShortList(list)
    BY <2>2 DEF Written, ShortList
  <2>4. cfg'[list] = cfg[list]
    <3>1. CASE ReadBlank(line)
      BY <3>1 DEF ReadBlank
    <3>2. CASE ReadItem(line)
      <4>1. ListOf(listKey) # list
        BY <1>5, <3>2 DEF ReadItem
      <4> QED
        BY <1>1, <3>2, <4>1, ItemSets
    <3>3. CASE ReadPair(line)
      <4>1. list \notin Scalars
        BY FieldsKnown
      <4>2. list # ScalarOf(FullKey(line)) \/ list = "none"
        BY <4>1, FieldsKnown
      <4> QED
        BY <1>1, <3>3, <4>2, PairSets
    <3> QED
      BY <3>1, <3>2, <3>3
  <2> QED
    BY <1>1, <2>3, <2>4
<1> QED
  BY <1>4, <1>5

LEMMA ReadsLine ==
  ASSUME Reads, NEW line \in Lines, ReadLine(line) PROVE Reads'
<1> DEFINE n == Len(file) + 1
<1>1. /\ stage = "reading" /\ stage' = "reading" /\ file' = Append(file, line)
      /\ ReadBlank(line) \/ ReadItem(line) \/ ReadPair(line)
  BY DEF ReadLine
<1>2. ReadSoFar /\ file \in Seq(Lines) /\ DOMAIN cfg = Scalars \cup Lists
  BY <1>1 DEF Reads
<1>3. OneMore(line, n)
  BY <1>1 DEF Reads, OneMore
<1> HIDE DEF n
<1>4. Grows(line, n) /\ file' \in Seq(Lines)
  BY <1>3, MoreGrows, OneMoreLine
<1>5. Bounded'
  BY <1>4, BoundedStays
<1>6. Places' /\ Ranked'
  <2>1. Places'
    BY <1>1, <1>2, <1>4, PlacesStay, PlacesMove DEF ReadSoFar
  <2>2. line.kind = "item" => ~BadItem(line)
    BY <1>1 DEF ReadBlank, ReadItem, ReadPair
  <2> QED
    BY <1>2, <1>4, <2>1, <2>2, RankedStays DEF ReadSoFar
<1>7. \A field \in Scalars : cfg'[field] = Given(field)'
  BY <1>1, <1>2, <1>4, ScalarsStep
<1>8. \A list \in Lists : ShortList(list)' => cfg'[list] = Written(list)'
  BY <1>1, <1>2, <1>4, ListsStep
<1>9. DOMAIN cfg' = Scalars \cup Lists
  BY <1>1, <1>2, ItemSets, PairSets DEF ReadSoFar, ReadBlank
<1>10. ScalarsAsWritten' /\ ShortListsAsWritten'
  BY <1>1 DEF ScalarsAsWritten, ShortListsAsWritten, Accepted
<1> QED
  BY <1>1, <1>4, <1>5, <1>6, <1>7, <1>8, <1>9, <1>10 DEF Reads, ReadSoFar

-----------------------------------------------------------------------------
(* The file is read to its end, or it is not used.                         *)

LEMMA KeysSame ==
  ASSUME UNCHANGED file
  PROVE  /\ Pairs' = Pairs /\ \A i : KeyOf(i)' = KeyOf(i)
         /\ \A S : KeyAt(S)' = KeyAt(S)
<1>1. Pairs' = Pairs /\ \A S : KeyAt(S)' = KeyAt(S)
  BY DEF Pairs, KeyAt
<1>2. \A i, indent : Above(i, indent)' = Above(i, indent)
  BY <1>1 DEF Above
<1>3. \A i : SectionOf(i)' = SectionOf(i) /\ SubsectionOf(i)' = SubsectionOf(i)
  BY <1>2 DEF SectionOf, SubsectionOf, KeyAt
<1> QED
  BY <1>1, <1>3 DEF KeyOf

LEMMA TextSame ==
  ASSUME UNCHANGED file
  PROVE  /\ \A field : Given(field)' = Given(field)
         /\ \A list : /\ ItemLines(list)' = ItemLines(list) /\ ItemsOf(list)' = ItemsOf(list)
                      /\ Written(list)' = Written(list) /\ ShortList(list)' = ShortList(list)
         /\ Bounded' = Bounded
<1>1. \A field : Assignments(field)' = Assignments(field)
  <2> TAKE field
  <2>1. Assignments(field) = {i \in Pairs : file[i].value # "" /\ ScalarOf(KeyOf(i)) = field}
    BY DEF Assignments
  <2>2. Assignments(field)' =
          {i \in Pairs' : file'[i].value # "" /\ ScalarOf(KeyOf(i)') = field}
    BY DEF Assignments
  <2>3. file' = file /\ Pairs' = Pairs /\ \A i : KeyOf(i)' = KeyOf(i)
    BY KeysSame
  <2>4. Assignments(field)' = {i \in Pairs : file[i].value # "" /\ ScalarOf(KeyOf(i)') = field}
    BY <2>2, <2>3
  <2>5. \A i \in Pairs : ScalarOf(KeyOf(i)') = field <=> ScalarOf(KeyOf(i)) = field
    BY <2>3
  <2> QED
    BY <2>1, <2>4, <2>5
<1>2. \A field : Given(field)' = Given(field)
  BY <1>1 DEF Given
<1>3. \A list : ItemLines(list)' = ItemLines(list)
  BY KeysSame DEF ItemLines
<1>4. \A list : ItemsOf(list)' = ItemsOf(list)
  BY <1>3 DEF ItemsOf
<1>5. \A list : Written(list)' = Written(list) /\ ShortList(list)' = ShortList(list)
  BY <1>4 DEF Written, ShortList
<1>6. Bounded' = Bounded
  BY DEF Bounded
<1> QED
  BY <1>2, <1>3, <1>4, <1>5, <1>6

LEMMA ReadSoFarSame ==
  ASSUME UNCHANGED <<file, cfg, section, subsection, listKey>>, ReadSoFar
  PROVE  ReadSoFar'
<1>1. Places'
  <2>1. \A indent : Lead(indent)' = Lead(indent)
    BY KeysSame DEF Lead
  <2>2. SubLead' = SubLead
    BY <2>1 DEF SubLead
  <2>3. section' = KeyAt(Lead(0))' /\ subsection' = KeyAt(SubLead)'
    BY <2>1, <2>2 DEF ReadSoFar, Places, KeyAt
  <2>4. KeyOf(Latest(Pairs))' = KeyOf(Latest(Pairs))
    BY KeysSame DEF KeyOf, SectionOf, SubsectionOf, KeyAt, Above
  <2> QED
    BY <2>3, <2>4, KeysSame DEF ReadSoFar, Places
<1>2. Ranked'
  BY TextSame DEF ReadSoFar, Ranked, UpTo
<1>3. /\ \A field \in Scalars : cfg'[field] = Given(field)'
      /\ \A list \in Lists : ShortList(list)' => cfg'[list] = Written(list)'
  BY TextSame DEF ReadSoFar
<1> QED
  BY <1>1, <1>2, <1>3 DEF ReadSoFar

\* The properties say that the policy in force holds what is written.
LEMMA AsWritten ==
  /\ ScalarsAsWritten <=> (Accepted => \A field \in Scalars : policy[field] = Given(field))
  /\ ShortListsAsWritten <=>
       (Accepted => \A list \in Lists : ShortList(list) => policy[list] = Written(list))
BY DEF ScalarsAsWritten, ShortListsAsWritten, Given, ShortList

LEMMA AsWrittenNext ==
  /\ ScalarsAsWritten' <=>
       (Accepted' => \A field \in Scalars : policy'[field] = Given(field)')
  /\ ShortListsAsWritten' <=>
       (Accepted' => \A list \in Lists : ShortList(list)' => policy'[list] = Written(list)')
BY DEF ScalarsAsWritten, ShortListsAsWritten, Given, ShortList

LEMMA ReadsInit == Init => Reads
<1> SUFFICES ASSUME Init PROVE Reads
  OBVIOUS
<1>1. /\ stage = "fetching" /\ file = <<>> /\ cfg = DefaultConfig
      /\ section = <<>> /\ subsection = <<>> /\ listKey = <<>>
  BY DEF Init, PolicyInit
<1>2. DOMAIN file = {} /\ Pairs = {}
  BY <1>1 DEF Pairs
<1>3. Lead(0) = {} /\ Lead(2) = {} /\ SubLead = {}
  BY <1>2 DEF Lead, SubLead
<1>4. Places
  BY <1>1, <1>2, <1>3 DEF Places, KeyAt
<1>5. \A list : ItemLines(list) = {} /\ ItemsOf(list) = <<>>
  <2> TAKE list
  <2>1. ItemLines(list) = {}
    BY <1>2 DEF ItemLines
  <2>2. Cardinality(ItemLines(list)) = 0
    BY <2>1, FS_EmptySet
  <2>3. 1 .. 0 = {}
    OBVIOUS
  <2> QED
    BY <2>1, <2>2, <2>3 DEF ItemsOf
<1>6. Ranked
  BY <1>5, FS_EmptySet DEF Ranked
<1>7. \A field : Given(field) = DefaultConfig[field]
  BY <1>2 DEF Given, Assignments
<1>8. \A list : Written(list) = DefaultConfig[list]
  BY <1>5 DEF Written
<1>9. ReadSoFar
  BY <1>1, <1>4, <1>6, <1>7, <1>8 DEF ReadSoFar
<1>10. Bounded /\ file \in Seq(Lines)
  BY <1>1, <1>2 DEF Bounded
<1>11. ScalarsAsWritten /\ ShortListsAsWritten
  BY <1>1, AsWritten DEF Accepted
<1> QED
  BY <1>1, <1>9, <1>10, <1>11, FieldsKnown DEF Reads

\* What the steps after loading leave alone.
LEMMA ReadsSame ==
  ASSUME Reads, UNCHANGED <<file, cfg, section, subsection, listKey, policy, warned>>,
         \/ stage' = stage
         \/ stage = "fetching" /\ stage' = "reading"
         \/ stage = "loaded" /\ stage' = "filtering"
  PROVE  Reads'
<1>1. file' \in Seq(Lines) /\ Bounded' /\ DOMAIN cfg' = Scalars \cup Lists
  BY TextSame DEF Reads
<1>2. stage' \in {"fetching", "reading"} => ReadSoFar'
  BY ReadSoFarSame DEF Reads
<1>3. stage' = "fetching" => file' = <<>> /\ cfg' = DefaultConfig
  BY DEF Reads
<1>4. Accepted' => Accepted
  BY DEF Accepted
<1>5. ScalarsAsWritten' /\ ShortListsAsWritten'
  BY <1>4, AsWritten, AsWrittenNext, TextSame DEF Reads
<1> QED
  BY <1>1, <1>2, <1>3, <1>5 DEF Reads

\* A file that is not used need not have been read to its end.
LEMMA ReadsReject ==
  ASSUME Reads, stage' = "loaded", warned' = TRUE, UNCHANGED cfg,
         UNCHANGED file \/ \E line \in Lines : file' = Append(file, line)
  PROVE  Reads'
<1>1. file' \in Seq(Lines) /\ Bounded'
  <2>1. CASE UNCHANGED file
    BY <2>1, TextSame DEF Reads
  <2>2. ASSUME NEW line \in Lines, file' = Append(file, line)
        PROVE  file' \in Seq(Lines) /\ Bounded'
    <3>1. PICK n : n = Len(file) + 1
      OBVIOUS
    <3>2. OneMore(line, n)
      BY <2>2, <3>1 DEF Reads, OneMore
    <3> QED
      BY <3>2, OneMoreLine, MoreGrows, BoundedStays
  <2> QED
    BY <2>1, <2>2
<1>2. ~Accepted'
  BY DEF Accepted
<1> QED
  BY <1>1, <1>2, AsWrittenNext DEF Reads

LEMMA ReadsAccept ==
  ASSUME Reads, stage \in {"fetching", "reading"}, stage' = "loaded", policy' = cfg,
         UNCHANGED <<file, cfg>>
  PROVE  Reads'
<1>1. file' \in Seq(Lines) /\ Bounded'
  BY TextSame DEF Reads
<1>2. /\ \A field \in Scalars : policy'[field] = Given(field)'
      /\ \A list \in Lists : ShortList(list)' => policy'[list] = Written(list)'
  BY TextSame DEF Reads, ReadSoFar
<1> QED
  BY <1>1, <1>2, AsWrittenNext DEF Reads

LEMMA ReadsNext == Reads /\ [Next]_vars => Reads'
<1> SUFFICES ASSUME Reads, [Next]_vars PROVE Reads'
  OBVIOUS
<1>1. CASE Load
  <2>1. CASE FileFound
    BY <2>1, ReadsSame DEF FileFound
  <2>2. CASE FileMissing
    <3>1. policy' = cfg
      BY <2>2 DEF FileMissing, Returns, Reads
    <3> QED
      BY <2>2, <3>1, ReadsAccept DEF FileMissing, Returns
  <2>3. CASE FetchFails
    BY <2>3, ReadsReject DEF FetchFails, Returns
  <2>4. CASE EndOfFile
    <3>1. CASE Valid(cfg)
      BY <2>4, <3>1, ReadsAccept DEF EndOfFile, Returns
    <3>2. CASE ~Valid(cfg)
      BY <2>4, <3>2, ReadsReject DEF EndOfFile, RejectFile, Returns
    <3> QED
      BY <3>1, <3>2
  <2>5. ASSUME NEW line \in Lines, ReadLine(line) PROVE Reads'
    BY <2>5, ReadsLine
  <2>6. ASSUME NEW line \in Lines, RejectLine(line) PROVE Reads'
    BY <2>6, ReadsReject DEF RejectLine, RejectFile, Returns
  <2> QED
    BY <1>1, <2>1, <2>2, <2>3, <2>4, <2>5, <2>6 DEF Load, LoadPolicy
<1>2. CASE BeginInput
  BY <1>2, ReadsSame DEF BeginInput
<1>3. CASE FilterIgnored \/ Compress \/ UNCHANGED vars
  <2>1. UNCHANGED policyVars
    BY <1>3 DEF FilterIgnored, Compress, vars
  <2> QED
    BY <2>1, ReadsSame DEF policyVars
<1> QED
  BY <1>1, <1>2, <1>3 DEF Next

LEMMA ReadsHolds == Spec => []Reads
BY ReadsInit, ReadsNext, PTL DEF Spec

\* Parse and loadRepositoryPolicy: for every file of whatever lines, a setting of
\* an accepted file is the one its last line for it gives under the sections that
\* line stands in.
THEOREM ScalarsReadAsWritten == Spec => []ScalarsAsWritten
BY ReadsHolds, PTL DEF Reads

\* appendList: for every file and every default list, a list that is no longer
\* than the default one, or has none, is taken as it is written.
THEOREM ShortListsReadAsWritten == Spec => []ShortListsAsWritten
BY ReadsHolds, PTL DEF Reads

-----------------------------------------------------------------------------
(* What the policy hides.                                                  *)

\* Of the files that were looked at, those that are ignored match the policy
\* and the others are kept.
Sorted ==
  stage = "filtering" =>
    /\ \A i \in DOMAIN files :
         /\ ~MatchAny(policy.ignoreFiles, files[i].path)
         /\ files[i].path \in PathsOf(changed)
    /\ \A i \in 1 .. Position - 1 :
         MatchAny(policy.ignoreFiles, changed[i].path) \/ changed[i].path \in PathsOf(files)

LEMMA SortedNext == Inv /\ Sorted /\ [Next]_vars => Sorted'
<1> SUFFICES ASSUME Inv, Sorted, [Next]_vars PROVE Sorted'
  OBVIOUS
<1>1. CASE Load
  <2>1. stage' # "filtering"
    BY <1>1, LoadIsLoading DEF Loading, Inv, TypeOK
  <2> QED
    BY <2>1 DEF Sorted
<1>2. CASE BeginInput
  <2>1. files' = <<>> /\ ignored' = <<>>
    BY <1>2 DEF BeginInput, Inv, FixedBefore
  <2>2. Position' = 1 /\ DOMAIN files' = {}
    BY <2>1 DEF Position
  <2> QED
    BY <2>2 DEF Sorted
<1>3. CASE FilterIgnored
  <2> DEFINE f == changed[Position]
  <2>1. /\ stage = "filtering" /\ Position <= Len(changed)
        /\ UNCHANGED <<stage, policy, changed>>
    BY <1>3 DEF FilterIgnored, policyVars
  <2>2. /\ Len(files) \in Nat /\ Len(ignored) \in Nat /\ files \in Seq(Files)
        /\ ignored \in Seq(Paths) /\ changed \in Seq(Files)
        /\ Position \in 1 .. Len(changed) /\ f \in Files /\ f.path \in PathsOf(changed)
        /\ f.path \in Paths
    <3>1. /\ Len(files) \in Nat /\ Len(ignored) \in Nat /\ files \in Seq(Files)
          /\ ignored \in Seq(Paths) /\ changed \in Seq(Files)
      BY DEF Inv, TypeOK
    <3>2. Position \in 1 .. Len(changed)
      BY <2>1, <3>1 DEF Position
    <3>3. f \in Files /\ f.path \in PathsOf(changed)
      BY <3>1, <3>2 DEF PathsOf
    <3> QED
      BY <3>1, <3>2, <3>3 DEF Files
  <2>3. /\ \A i \in DOMAIN files :
             /\ ~MatchAny(policy.ignoreFiles, files[i].path)
             /\ files[i].path \in PathsOf(changed)
        /\ \A i \in 1 .. Position - 1 :
             MatchAny(policy.ignoreFiles, changed[i].path)
               \/ changed[i].path \in PathsOf(files)
    BY <2>1 DEF Sorted
  <2>4. CASE /\ MatchAny(policy.ignoreFiles, f.path)
             /\ ignored' = Append(ignored, f.path) /\ files' = files
    <3>1. Position' = Position + 1
      BY <2>2, <2>4 DEF Position
    <3>2. \A i \in 1 .. Position' - 1 : i \in 1 .. Position - 1 \/ i = Position
      BY <2>2, <3>1
    <3> HIDE DEF f
    <3>3. \A i \in 1 .. Position' - 1 :
             MatchAny(policy.ignoreFiles, changed[i].path)
               \/ changed[i].path \in PathsOf(files)
      BY <2>3, <2>4, <3>2 DEF f
    <3>4. PathsOf(files') = PathsOf(files)
      BY <2>4
    <3> QED
      BY <2>1, <2>3, <2>4, <3>3, <3>4 DEF Sorted, MatchAny, PathsOf
  <2>5. CASE /\ ~MatchAny(policy.ignoreFiles, f.path)
             /\ files' = Append(files, f) /\ ignored' = ignored
    <3>1. Position' = Position + 1
      BY <2>2, <2>5 DEF Position
    <3>2. \A i \in 1 .. Position' - 1 : i \in 1 .. Position - 1 \/ i = Position
      BY <2>2, <3>1
    <3>3. /\ DOMAIN files' = DOMAIN files \cup {Len(files) + 1}
          /\ files'[Len(files) + 1] = f
          /\ \A i \in DOMAIN files : files'[i] = files[i]
      BY <2>2, <2>5
    <3> HIDE DEF f
    <3>4. PathsOf(files') = PathsOf(files) \cup {f.path}
      BY <3>3 DEF PathsOf
    <3>5. \A i \in 1 .. Position' - 1 :
             MatchAny(policy.ignoreFiles, changed[i].path)
               \/ changed[i].path \in PathsOf(files')
      BY <2>3, <3>2, <3>4 DEF f
    <3>6. \A i \in DOMAIN files' :
             /\ ~MatchAny(policy.ignoreFiles, files'[i].path)
             /\ files'[i].path \in PathsOf(changed)
      BY <2>2, <2>3, <2>5, <3>3
    <3> QED
      BY <2>1, <3>5, <3>6 DEF Sorted, MatchAny, PathsOf
  <2> QED
    BY <1>3, <2>4, <2>5 DEF FilterIgnored
<1>4. CASE Compress \/ UNCHANGED vars
  <2>1. UNCHANGED <<stage, policy, files, changed, ignored>>
    BY <1>4 DEF Compress, CompressFile, OmitFile, CutFile, ShowFile, Emit, policyVars,
                vars, diffVars
  <2> QED
    BY <2>1 DEF Sorted, Position, MatchAny, PathsOf
<1> QED
  BY <1>1, <1>2, <1>3, <1>4 DEF Next

LEMMA HiddenWritten == Inv /\ Reads /\ Sorted => HiddenAsWritten
<1> SUFFICES ASSUME Inv, Reads, Sorted, stage = "filtering", Position > Len(changed),
                    Len(outFiles) = Len(files), NEW path \in PathsOf(changed)
             PROVE  path \notin PathsOf(outFiles) <=>
                      ~warned /\ MatchAny(ItemsOf("ignoreFiles"), path)
  BY DEF HiddenAsWritten
<1>1. PathsOf(outFiles) = PathsOf(files)
  <2>1. DOMAIN outFiles = DOMAIN files
    BY DEF Inv, TypeOK
  <2> QED
    BY <2>1 DEF PathsOf, Inv, Listed
<1>2. path \notin PathsOf(files) <=> MatchAny(policy.ignoreFiles, path)
  <2>1. PICK i \in DOMAIN changed : changed[i].path = path
    BY DEF PathsOf
  <2>2. i \in 1 .. Position - 1
    BY DEF Inv, TypeOK, Position
  <2>3. path \notin PathsOf(files) => MatchAny(policy.ignoreFiles, path)
    BY <2>1, <2>2 DEF Sorted
  <2>4. path \in PathsOf(files) => ~MatchAny(policy.ignoreFiles, path)
    BY DEF Sorted, PathsOf
  <2> QED
    BY <2>3, <2>4
<1>3. CASE warned
  <2>1. policy.ignoreFiles = <<>>
    BY <1>3 DEF Inv, DefaultWhenWarned, DefaultConfig
  <2>2. ~MatchAny(policy.ignoreFiles, path)
    BY <2>1 DEF MatchAny
  <2> QED
    BY <1>1, <1>2, <1>3, <2>2
<1>4. CASE ~warned
  <2>1. Accepted
    BY <1>4 DEF Accepted
  <2>2. ShortList("ignoreFiles") /\ "ignoreFiles" \in Lists
    BY FieldsKnown DEF ShortList, Lists
  <2>3. policy["ignoreFiles"] = Written("ignoreFiles")
    BY <2>1, <2>2, AsWritten DEF Reads
  <2>4. Written("ignoreFiles") = ItemsOf("ignoreFiles")
    BY FieldsKnown DEF Written
  <2>5. policy.ignoreFiles = ItemsOf("ignoreFiles")
    BY <2>3, <2>4
  <2> QED
    BY <1>1, <1>2, <1>4, <2>5
<1> QED
  BY <1>3, <1>4

\* loadRepositoryPolicy, FilterIgnored and CompressDiff together: for every policy
\* file and pull request, exactly the files that an accepted policy has a matching
\* line under ignore_files for are hidden from the review.
THEOREM HidesAsWritten == Spec => []HiddenAsWritten
<1>1. Init => Sorted
  BY DEF Init, PolicyInit, Sorted
<1> QED
  BY <1>1, InvHolds, ReadsHolds, SortedNext, HiddenWritten, PTL DEF Spec

-----------------------------------------------------------------------------
(* Every byte is accounted for.  That there is a tally of the files, and   *)
(* that every tally agrees with the counts, holds along a behaviour.       *)

IsTally(f) ==
  f = [k \in 0 .. Len(outFiles) |->
         IF k = 0 THEN 0 ELSE f[k - 1] + files[k].header + files[k].patch]

Tallied ==
  /\ \E f : IsTally(f)
  /\ \A f : IsTally(f) => f[Len(outFiles)] = used + omitted

LEMMA CompressCounts ==
  ASSUME Inv, Compress
  PROVE  /\ Len(outFiles) + 1 \in 1 .. Len(files) /\ Len(outFiles') = Len(outFiles) + 1
         /\ files' = files
         /\ used' + omitted' =
              used + omitted + (files[Len(outFiles) + 1].header
                                  + files[Len(outFiles) + 1].patch)
<1>1. CompressFile /\ outFiles \in Seq([path : Paths, shown : Nat, truncated : BOOLEAN])
      /\ files \in Seq(Files)
  BY DEF Compress, Inv, TypeOK
<1>2. PICK shown, cut :
        /\ Len(outFiles) < Len(files) /\ files' = files
        /\ outFiles' = Append(outFiles, [path |-> File.path, shown |-> shown,
                                         truncated |-> cut])
  BY <1>1 DEF CompressFile, OmitFile, CutFile, ShowFile, Emit
<1>3. /\ Len(outFiles) + 1 \in 1 .. Len(files) /\ Len(outFiles') = Len(outFiles) + 1
  BY <1>1, <1>2
<1>4. File \in Files /\ File = files[Len(outFiles) + 1]
  BY <1>1, <1>3 DEF File
<1>5. File.header \in Nat /\ File.patch \in Nat /\ used \in Nat /\ omitted \in Nat
  BY <1>4 DEF Files, Inv, TypeOK
<1>6. Room \in Int
  BY <1>5, LimitsAssumption DEF Room, Budget, Inv, TypeOK
<1>7. used' + omitted' = used + omitted + (File.header + File.patch)
  <2>1. CASE OmitFile
    BY <1>5, <2>1 DEF OmitFile
  <2>2. CASE CutFile
    BY <1>5, <1>6, <2>2 DEF CutFile
  <2>3. CASE ShowFile
    BY <1>5, <2>3 DEF ShowFile
  <2> QED
    BY <1>1, <2>1, <2>2, <2>3 DEF CompressFile
<1> QED
  BY <1>2, <1>3, <1>4, <1>7

Untouched == outFiles = <<>> /\ used = 0 /\ omitted = 0

LEMMA TalliedEmpty == Untouched => Tallied
<1> SUFFICES ASSUME outFiles = <<>>, used = 0, omitted = 0 PROVE Tallied
  BY DEF Untouched
<1>1. Len(outFiles) = 0
  OBVIOUS
<1>2. \A f : IsTally(f) <=> f = [k \in {0} |-> 0]
  <2>1. 0 .. 0 = {0}
    OBVIOUS
  <2> QED
    BY <1>1, <2>1 DEF IsTally
<1>3. \E f : IsTally(f)
  BY <1>2
<1>4. ASSUME NEW f, IsTally(f) PROVE f[Len(outFiles)] = used + omitted
  <2>1. f = [k \in {0} |-> 0]
    BY <1>2, <1>4
  <2> QED
    BY <1>1, <2>1
<1> QED
  BY <1>3, <1>4 DEF Tallied

LEMMA TalliedEmptyNext == Untouched' => Tallied'
BY TalliedEmpty, PTL

LEMMA TalliedCompress ==
  ASSUME Inv, Tallied, Compress PROVE Tallied'
<1> DEFINE n == Len(outFiles)
           w(k) == files[k].header + files[k].patch
<1>1. /\ n \in Nat /\ n + 1 \in 1 .. Len(files) /\ Len(outFiles') = n + 1 /\ files' = files
      /\ used' + omitted' = used + omitted + w(n + 1)
  BY CompressCounts DEF Inv, TypeOK
<1>2. \A f : IsTally(f)' <=>
        f = [k \in 0 .. n + 1 |->
               IF k = 0 THEN 0 ELSE f[k - 1] + files[k].header + files[k].patch]
  BY <1>1 DEF IsTally
<1>3. \E f : f = [k \in 0 .. n + 1 |->
                    IF k = 0 THEN 0 ELSE f[k - 1] + files[k].header + files[k].patch]
  <2>1. PICK f : IsTally(f)
    BY DEF Tallied
  <2> DEFINE g == [k \in 0 .. n + 1 |-> IF k = n + 1 THEN f[n] + files[k].header + files[k].patch
                                       ELSE f[k]]
  <2>2. g = [k \in 0 .. n + 1 |->
               IF k = 0 THEN 0 ELSE g[k - 1] + files[k].header + files[k].patch]
    <3>1. ASSUME NEW k \in 0 .. n + 1
          PROVE  g[k] = IF k = 0 THEN 0 ELSE g[k - 1] + files[k].header + files[k].patch
      <4>1. CASE k = n + 1
        <5>1. k # 0 /\ k - 1 = n /\ k - 1 \in 0 .. n + 1 /\ k - 1 # n + 1
          BY <1>1, <4>1
        <5>2. g[k - 1] = f[n]
          BY <5>1
        <5>3. g[k] = f[n] + files[k].header + files[k].patch
          BY <4>1
        <5> QED
          BY <5>1, <5>2, <5>3
      <4>2. CASE k # n + 1
        <5>1. k \in 0 .. n
          BY <1>1, <4>2
        <5>2. f[k] = IF k = 0 THEN 0 ELSE f[k - 1] + files[k].header + files[k].patch
          BY <2>1, <5>1 DEF IsTally
        <5>3. k # 0 => k - 1 \in 0 .. n + 1 /\ k - 1 # n + 1
          BY <1>1, <5>1
        <5>4. g[k] = f[k] /\ (k # 0 => g[k - 1] = f[k - 1])
          BY <4>2, <5>3
        <5> QED
          BY <5>2, <5>4
      <4> QED
        BY <4>1, <4>2
    <3>2. g = [k \in 0 .. n + 1 |-> g[k]]
      OBVIOUS
    <3> HIDE DEF g
    <3> QED
      BY <3>1, <3>2
  <2> HIDE DEF g
  <2> QED
    BY <2>2
<1>4. ASSUME NEW f, IsTally(f)' PROVE f[Len(outFiles')] = used' + omitted'
  <2>1. f = [k \in 0 .. n + 1 |->
               IF k = 0 THEN 0 ELSE f[k - 1] + files[k].header + files[k].patch]
    BY <1>2, <1>4
  <2> DEFINE g == [k \in 0 .. n |-> f[k]]
  <2>2. IsTally(g)
    <3>1. ASSUME NEW k \in 0 .. n
          PROVE  g[k] = IF k = 0 THEN 0 ELSE g[k - 1] + files[k].header + files[k].patch
      <4>1. k \in 0 .. n + 1 /\ (k # 0 => k - 1 \in 0 .. n)
        BY <1>1
      <4>2. f[k] = IF k = 0 THEN 0 ELSE f[k - 1] + files[k].header + files[k].patch
        BY <2>1, <4>1
      <4> QED
        BY <4>1, <4>2
    <3>2. g = [k \in 0 .. n |-> g[k]]
      OBVIOUS
    <3> HIDE DEF g
    <3> QED
      BY <3>1, <3>2 DEF IsTally
  <2>3. f[n] = used + omitted
    <3>1. g[n] = used + omitted
      BY <2>2 DEF Tallied
    <3> QED
      BY <1>1, <3>1
  <2>4. f[n + 1] = f[n] + files[n + 1].header + files[n + 1].patch
    <3>1. n + 1 \in 0 .. n + 1 /\ n + 1 # 0 /\ (n + 1) - 1 = n
      BY <1>1
    <3> QED
      BY <2>1, <3>1
  <2>5. used \in Nat /\ omitted \in Nat
        /\ files[n + 1].header \in Nat /\ files[n + 1].patch \in Nat
    <3>1. files[n + 1] \in Files
      BY <1>1 DEF Inv, TypeOK
    <3> QED
      BY <3>1 DEF Files, Inv, TypeOK
  <2> QED
    BY <1>1, <2>3, <2>4, <2>5
<1> QED
  BY <1>2, <1>3, <1>4 DEF Tallied

LEMMA TalliedNext == Inv /\ Tallied /\ [Next]_vars => Tallied'
<1> SUFFICES ASSUME Inv, Tallied, [Next]_vars PROVE Tallied'
  OBVIOUS
<1>1. CASE Compress
  BY <1>1, TalliedCompress
<1>2. CASE UNCHANGED <<files, outFiles, used, omitted>>
  BY <1>2 DEF Tallied, IsTally
<1>3. CASE BeginInput \/ FilterIgnored
  <2>1. outFiles = <<>> /\ UNCHANGED <<outFiles, used, omitted>>
    BY <1>3 DEF BeginInput, FilterIgnored, Inv, FixedBefore, TypeOK, Position
  <2>2. outFiles' = <<>> /\ used' = 0 /\ omitted' = 0
    BY <2>1 DEF Inv, FixedBefore
  <2> QED
    BY <2>2, TalliedEmptyNext DEF Untouched
<1> QED
  BY <1>1, <1>2, <1>3 DEF Next, Load, vars, diffVars

\* CompressDiff: for every pull request and limit, the bytes of the text and
\* OmittedBytes are those of the headers and patches of the files.
THEOREM DiffNothingLost == Spec => []NothingLost
<1>1. Init => Tallied
  BY TalliedEmpty DEF Init, DiffInit, Untouched
<1>2. Tallied => NothingLost
  <2> SUFFICES ASSUME Tallied PROVE NothingLost
    OBVIOUS
  <2>1. BytesUpTo = CHOOSE f : IsTally(f)
    BY DEF BytesUpTo, IsTally
  <2>2. IsTally(BytesUpTo)
    BY <2>1 DEF Tallied
  <2> QED
    BY <2>2 DEF Tallied, NothingLost
<1> QED
  BY <1>1, <1>2, InvHolds, TalliedNext, PTL DEF Spec
=============================================================================
