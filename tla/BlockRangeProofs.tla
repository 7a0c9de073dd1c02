-------------------------- MODULE BlockRangeProofs --------------------------
(***************************************************************************)
(* Theorems about BlockRange, for any chain, arguments, seeds, number of   *)
(* workers and sessions, and any faults.                                   *)
(***************************************************************************)
EXTENDS BlockRange, SequenceTheorems, FiniteSetTheorems, TLAPS

Line == Record \cup {Header}

\* Sequences of lines with the column names where they belong.
Headed(lines, creator) ==
    /\ \A i \in 2 .. Len(lines) : lines[i] # Header
    /\ lines # <<>> =>
          IF lines[1] = Header THEN Len(lines) >= 2 /\ lines[2].session = creator
                               ELSE lines[1].session # creator

\* The native record that a compiled one goes with.
Partner(native, record, sessions) ==
    /\ native # Header /\ native.run_type = "native"
    /\ native.session = record.session /\ native.block = record.block
    /\ sessions[record.session].seeded => native.tx = record.tx

IsCompiled(line) == line # Header /\ line.run_type = "aot"

Paired(lines, sessions) ==
    \A i \in DOMAIN lines : IsCompiled(lines[i]) =>
        \E j \in 1 .. i - 1 : Partner(lines[j], lines[i], sessions)

\* What the file holds once the writer is flushed.
File == data \o buffer

\* Which variables matter in which part of a session.
Shape ==
    /\ pc # "idle" => session > 0
    /\ pc \notin {"idle", "opening"} => created > 0
    /\ pc = "opening" => created < session
    /\ pc \in {"idle", "opening"} => ~header /\ buffer = <<>>
    /\ \A b \in Block : job[b] # "waiting" =>
          b \in block_iter /\ pc \in {"native", "compile", "aot"}
    /\ \A b \in Block : job[b] \in {"sim", "measured"} => pc # "compile"

\* The column names, in the file or still to be written.
HeadInv ==
    /\ Headed(data, created) /\ Headed(File, created)
    /\ header => File = <<>> /\ created = session
    /\ created = 0 => File = <<>>
    /\ pc \notin {"idle", "opening"} /\ created = session /\ File = <<>> => header

\* No record is of a session to come.
PastInv ==
    /\ \A i \in DOMAIN data : data[i] # Header => data[i].session \in 1 .. session
    /\ \A i \in DOMAIN buffer : buffer[i] # Header => buffer[i].session \in 1 .. session

\* The transaction that a seed picks in b.
Pick(b) == IF args.run_rnd_txs THEN seed[1 .. TxsLen(args, b)][1] ELSE 0
NothingToPick(b) == args.run_rnd_txs /\ TxCount[b] = 0

\* The native record of b in this session.
NativeDone(b) ==
    \E i \in DOMAIN data :
        /\ data[i] # Header /\ data[i].run_type = "native"
        /\ data[i].session = session /\ data[i].block = b
        /\ args.seeded => data[i].tx = Pick(b)

\* What a worker has picked, and left in the file when it is done.
JobInv ==
    \A b \in Block :
        /\ job[b] = "waiting" => tx[b] = 0
        /\ job[b] \in {"sim", "measured", "written"} =>
              ~NothingToPick(b) /\ (args.seeded => tx[b] = Pick(b))
        /\ job[b] = "skipped" => NothingToPick(b)
        /\ job[b] = "written" /\ pc # "compile" =>
              \E i \in DOMAIN data : data[i] = Measurement(b)

\* The native phase is complete before the compiled one begins.
PairInv ==
    /\ pc \in {"compile", "aot"} =>
          \A b \in block_iter : NothingToPick(b) \/ NativeDone(b)
    /\ Paired(data, asked)
    /\ \A k \in DOMAIN buffer : IsCompiled(buffer[k]) =>
          \E j \in DOMAIN data : Partner(data[j], buffer[k], asked)

RangeInv == TypeOK /\ Shape /\ HeadInv /\ PastInv /\ JobInv /\ PairInv

-----------------------------------------------------------------------------
(* Sequences of lines.                                                     *)

\* A record after others needs no column names before it.
LEMMA HeadedThenRecord ==
    ASSUME NEW lines \in Seq(Line), NEW record \in Record, NEW creator, Headed(lines, creator),
           lines = <<>> => record.session # creator
    PROVE  Headed(lines \o <<record>>, creator)
<1> DEFINE more == lines \o <<record>>
<1>1. record # Header
    BY BlockRangeAssumption DEF Record
<1>2. /\ <<record>> \in Seq(Line) /\ Len(<<record>>) = 1 /\ <<record>>[1] = record
    BY DEF Line
<1>3. /\ Len(more) = Len(lines) + 1 /\ Len(lines) \in Nat
      /\ \A i \in 1 .. Len(lines) + 1 :
            more[i] = IF i <= Len(lines) THEN lines[i] ELSE <<record>>[i - Len(lines)]
    BY <1>2, ConcatProperties, LenProperties
<1>4. /\ more[Len(lines) + 1] = record
      /\ \A i \in 1 .. Len(lines) : more[i] = lines[i]
    BY <1>2, <1>3
<1>5. CASE lines = <<>>
    <2>1. Len(lines) = 0
        BY <1>5
    <2> QED BY <1>1, <1>3, <1>4, <1>5, <2>1 DEF Headed
<1>6. CASE lines # <<>>
    <2>1. Len(lines) >= 1
        BY <1>6, EmptySeq, <1>3
    <2>2. more[1] = lines[1] /\ more # <<>>
        BY <1>3, <1>4, <2>1
    <2>3. \A i \in 2 .. Len(more) : more[i] # Header
        BY <1>1, <1>3, <1>4 DEF Headed
    <2>4. lines[1] = Header => Len(more) >= 2 /\ more[2] = lines[2]
        BY <1>3, <1>4, <1>6 DEF Headed
    <2> HIDE DEF more
    <2>5. Headed(more, creator)
        BY <2>2, <2>3, <2>4, <1>6 DEF Headed
    <2> QED BY <2>5 DEF more
<1> QED BY <1>5, <1>6

\* The column names and the first record after them.
LEMMA HeadedFromStart ==
    ASSUME NEW record \in Record
    PROVE  Headed(<<Header, record>>, record.session)
    BY BlockRangeAssumption DEF Headed, Record

\* Lines whose partners are already there may be appended.
LEMMA PairedConcat ==
    ASSUME NEW lines \in Seq(Line), NEW more \in Seq(Line), NEW sessions,
           Paired(lines, sessions),
           \A k \in DOMAIN more : IsCompiled(more[k]) =>
               \E j \in DOMAIN lines : Partner(lines[j], more[k], sessions)
    PROVE  Paired(lines \o more, sessions)
<1> DEFINE all == lines \o more
<1>1. /\ all \in Seq(Line) /\ Len(all) = Len(lines) + Len(more)
      /\ Len(lines) \in Nat /\ Len(more) \in Nat
      /\ DOMAIN lines = 1 .. Len(lines) /\ DOMAIN more = 1 .. Len(more)
      /\ DOMAIN all = 1 .. Len(lines) + Len(more)
      /\ \A i \in 1 .. Len(lines) + Len(more) :
            all[i] = IF i <= Len(lines) THEN lines[i] ELSE more[i - Len(lines)]
    BY ConcatProperties, LenProperties
<1> HIDE DEF all
<1>2. SUFFICES ASSUME NEW i \in DOMAIN all, IsCompiled(all[i])
               PROVE  \E j \in 1 .. i - 1 : Partner(all[j], all[i], sessions)
    BY DEF Paired, all
<1>3. CASE i <= Len(lines)
    <2>1. i \in DOMAIN lines /\ all[i] = lines[i]
        BY <1>1, <1>3
    <2>2. PICK j \in 1 .. i - 1 : Partner(lines[j], lines[i], sessions)
        BY <1>2, <2>1 DEF Paired
    <2>3. all[j] = lines[j]
        BY <1>1, <1>3
    <2> QED BY <2>1, <2>2, <2>3
<1>4. CASE i > Len(lines)
    <2>1. i - Len(lines) \in DOMAIN more /\ all[i] = more[i - Len(lines)]
        BY <1>1, <1>4
    <2>2. PICK j \in DOMAIN lines : Partner(lines[j], more[i - Len(lines)], sessions)
        BY <1>2, <2>1
    <2>3. j \in 1 .. i - 1 /\ all[j] = lines[j]
        BY <1>1, <1>4
    <2> QED BY <2>1, <2>2, <2>3
<1> QED BY <1>1, <1>3, <1>4

-----------------------------------------------------------------------------
(* Random choices.                                                         *)

\* What a shuffle takes of a finite set is in it.
LEMMA TakenWithin ==
    ASSUME NEW dice \in Shuffles, NEW S \in DOMAIN dice, IsFiniteSet(S), NEW size \in Nat
    PROVE  Taken(S, size, dice) \subseteq S
<1>1. Cardinality(S) \in Nat
    BY FS_CardinalityType
<1>2. dice[S] \in [1 .. Cardinality(S) -> S]
    BY ShufflesAssumption
<1>3. 1 .. Least(size, Cardinality(S)) \subseteq 1 .. Cardinality(S)
    BY <1>1 DEF Least
<1> QED BY <1>2, <1>3 DEF Taken

\* The blocks of a session are blocks of its range.
LEMMA BlocksWithin ==
    ASSUME seed \in Shuffles, NEW a \in Arguments, NEW blocks \in BlockIters(a)
    PROVE  blocks \subseteq Block
<1> DEFINE range == a.start .. a.end - 1
           rest == range \ a.blacklist
<1>1. range \subseteq Block /\ a.start \in Int /\ a.end - 1 \in Int
    BY BlockRangeAssumption DEF Argument
<1>2. CASE a.sample = NoSample
    BY <1>1, <1>2 DEF BlockIters
<1>3. CASE a.sample # NoSample
    <2>1. a.sample \in Nat
        BY <1>3, BlockRangeAssumption DEF Argument
    <2>2. IsFiniteSet(rest)
        BY <1>1, FS_Interval, FS_Subset
    <2>3. PICK dice \in Shuffles : blocks = Taken(rest, a.sample, dice)
        BY <1>3 DEF BlockIters, Drawn, Dice
    <2>4. rest \in DOMAIN dice
        BY ShufflesAssumption
    <2>5. Taken(rest, a.sample, dice) \subseteq rest
        BY <2>1, <2>2, <2>4, TakenWithin
    <2> QED BY <1>1, <2>3, <2>5
<1> QED BY <1>2, <1>3

\* The number of transactions drawn from is a number.
LEMMA TxsLenType ==
    ASSUME NEW a \in Arguments, NEW b \in Block
    PROVE  TxsLen(a, b) \in Nat
<1>1. /\ TxCount[b] \in Nat /\ a.num \in Nat /\ a.den \in Nat \ {0}
      /\ a.part \in {"none", "tob", "bob"}
    BY BlockRangeAssumption DEF Argument
<1>2. \A x \in Nat : x \div a.den \in Nat
    BY <1>1
<1>3. TxCount[b] * a.num \in Nat
    BY <1>1
<1>4. ASSUME ~(a.num > a.den) PROVE TxCount[b] * (a.den - a.num) \in Nat
    <2>1. a.den - a.num \in Nat
        BY <1>1, <1>4
    <2> QED BY <1>1, <2>1
<1> QED BY <1>1, <1>2, <1>3, <1>4 DEF TxsLen

\* A transaction that is drawn is a number, and with a seed always the same.
LEMMA PickIsDrawn ==
    ASSUME seed \in Shuffles, NEW a \in Arguments, NEW b \in Block,
           NEW drawn \in Drawn(1 .. TxsLen(a, b), {}, 1, a.seeded), NEW k \in drawn
    PROVE  k \in Nat /\ (a.seeded => k = seed[1 .. TxsLen(a, b)][1])
<1> DEFINE S == 1 .. TxsLen(a, b)
<1>1. IsFiniteSet(S) /\ S \ {} = S /\ S \subseteq Nat
    BY TxsLenType, FS_Interval
<1>2. PICK dice \in Dice(a.seeded) : drawn = Taken(S, 1, dice)
    BY <1>1 DEF Drawn
<1>3. dice \in Shuffles /\ (a.seeded => dice = seed)
    BY <1>2 DEF Dice
<1>4. S \in DOMAIN dice
    BY <1>3, ShufflesAssumption
<1>5. k \in S
    BY <1>1, <1>2, <1>3, <1>4, TakenWithin
<1>6. k = dice[S][1]
    <2>1. Cardinality(S) \in Nat
        BY <1>1, FS_CardinalityType
    <2>2. 1 .. Least(1, Cardinality(S)) \subseteq {1}
        BY <2>1 DEF Least
    <2> QED BY <1>2, <2>2 DEF Taken
<1> QED BY <1>1, <1>3, <1>5, <1>6

-----------------------------------------------------------------------------
(* The beginning and the end of a session.                                 *)

\* There is no file in the beginning.
LEMMA RangeInit == Init => RangeInv
<1> SUFFICES ASSUME Init PROVE RangeInv
    OBVIOUS
<1>1. <<>> \o <<>> = <<>> /\ Len(<<>>) = 0
    BY ConcatEmptySeq, EmptySeq
<1>2. TypeOK
    <2>1. /\ asked \in Seq(Arguments) /\ buffer \in Seq(Record \cup {Header})
          /\ data \in Seq(Record \cup {Header}) /\ session = 0
        BY EmptySeq DEF Init, session
    <2>2. tx \in [Block -> Nat] /\ \A b \in Block : tx[b] <= TxCount[b]
        BY BlockRangeAssumption DEF Init
    <2>3. created \in 0 .. session /\ returned \subseteq 1 .. session
        BY <2>1 DEF Init
    <2>4. /\ seed \in Shuffles /\ pc = "idle" /\ block_iter \subseteq Block /\ header \in BOOLEAN
          /\ job \in [Block -> {"waiting"}]
        BY DEF Init
    <2> QED BY <2>1, <2>2, <2>3, <2>4 DEF TypeOK
<1>3. Shape
    BY DEF Init, Shape, session
<1>4. HeadInv
    BY <1>1 DEF Init, HeadInv, File, Headed
<1>5. PastInv /\ JobInv /\ PairInv
    BY DEF Init, PastInv, JobInv, PairInv, Paired
<1> QED BY <1>2, <1>3, <1>4, <1>5 DEF RangeInv

\* A new session has arguments, and blocks of the chain.
LEMMA StartInv ==
    ASSUME RangeInv, NEW a \in Arguments, Start(a)
    PROVE  RangeInv'
<1>1. /\ asked \in Seq(Arguments) /\ session \in Nat
      /\ asked' \in Seq(Arguments) /\ session' = session + 1 /\ asked'[session'] = a
      /\ \A s \in 1 .. session : asked'[s] = asked[s]
    BY AppendProperties, LenProperties DEF RangeInv, TypeOK, Start, session
<1>2. TypeOK'
    <2>1. block_iter' \subseteq Block
        BY BlocksWithin DEF RangeInv, TypeOK, Start
    <2> QED BY <1>1, <2>1 DEF RangeInv, TypeOK, Start, fileVars
<1>3. Shape'
    BY <1>1 DEF RangeInv, TypeOK, Shape, Start, fileVars
<1>4. HeadInv'
    BY DEF RangeInv, Shape, HeadInv, Start, fileVars, File
<1>5. PastInv'
    BY <1>1 DEF RangeInv, PastInv, Start, fileVars
<1>6. JobInv'
    BY DEF RangeInv, TypeOK, Shape, JobInv, Start
<1>7. PairInv'
    <2>1. data \in Seq(Line) /\ DOMAIN data = 1 .. Len(data) /\ Len(data) \in Nat
        BY LenProperties DEF RangeInv, TypeOK, Line
    <2>2. ASSUME NEW i \in DOMAIN data, NEW j, Partner(data[j], data[i], asked), data[i] # Header
          PROVE  Partner(data[j], data[i], asked')
        BY <1>1, <2>2 DEF RangeInv, PastInv, Partner
    <2>3. Paired(data, asked')
        BY <2>2 DEF RangeInv, PairInv, Paired, IsCompiled
    <2> QED BY <2>3 DEF RangeInv, Shape, PairInv, Start, fileVars
<1> QED BY <1>2, <1>3, <1>4, <1>5, <1>6, <1>7 DEF RangeInv

\* What the writer would have in the file is as good as what is there.
LEMMA FileFacts ==
    ASSUME RangeInv
    PROVE  /\ data \in Seq(Line) /\ buffer \in Seq(Line) /\ File \in Seq(Line)
           /\ Len(File) = Len(data) + Len(buffer)
           /\ Len(data) \in Nat /\ Len(buffer) \in Nat
           /\ DOMAIN data = 1 .. Len(data) /\ DOMAIN File = 1 .. Len(File)
           /\ \A i \in DOMAIN data : i \in DOMAIN File /\ File[i] = data[i]
           /\ \A i \in DOMAIN File : File[i] # Header => File[i].session \in 1 .. session
           /\ Paired(File, asked)
<1>1. data \in Seq(Line) /\ buffer \in Seq(Line)
    BY DEF RangeInv, TypeOK, Line
<1>2. /\ File \in Seq(Line) /\ Len(File) = Len(data) + Len(buffer)
      /\ \A i \in 1 .. Len(data) + Len(buffer) :
            File[i] = IF i <= Len(data) THEN data[i] ELSE buffer[i - Len(data)]
      /\ Len(data) \in Nat /\ Len(buffer) \in Nat
      /\ DOMAIN data = 1 .. Len(data) /\ DOMAIN buffer = 1 .. Len(buffer)
      /\ DOMAIN File = 1 .. Len(File)
    BY <1>1, ConcatProperties, LenProperties DEF File
<1>3. Paired(File, asked)
    BY <1>1, PairedConcat DEF RangeInv, PairInv, File
<1>4. ASSUME NEW i \in DOMAIN File, File[i] # Header PROVE File[i].session \in 1 .. session
    <2>1. CASE i <= Len(data)
        BY <1>2, <1>4, <2>1 DEF RangeInv, PastInv
    <2>2. CASE i > Len(data)
        <3>1. i - Len(data) \in DOMAIN buffer /\ File[i] = buffer[i - Len(data)]
            BY <1>2, <2>2
        <3> QED BY <1>4, <3>1 DEF RangeInv, PastInv
    <2> QED BY <1>2, <2>1, <2>2
<1> QED BY <1>1, <1>2, <1>3, <1>4

\* However a session ends, the file is as it was or has the buffer as well.
LEMMA IdleInv ==
    ASSUME RangeInv, Idle, data' = data \/ data' = File,
           UNCHANGED <<seed, asked, created>>,
           returned' \subseteq 1 .. session
    PROVE  RangeInv'
<1>1. File' = data'
    <2>1. data' \in Seq(Line)
        BY FileFacts
    <2> QED BY <2>1, ConcatEmptySeq DEF File, Idle
<1>2. TypeOK'
    <2>1. /\ buffer' \in Seq(Record \cup {Header}) /\ data' \in Seq(Record \cup {Header})
          /\ session' = session
        BY FileFacts, EmptySeq DEF Idle, session, Line
    <2>2. tx' \in [Block -> Nat] /\ \A b \in Block : tx'[b] <= TxCount[b]
        BY BlockRangeAssumption DEF Idle
    <2> QED BY <2>1, <2>2 DEF RangeInv, TypeOK, Idle
<1>3. Shape'
    BY DEF Shape, Idle
<1>4. HeadInv'
    <2>1. File = <<>> => data = <<>>
        BY FileFacts, ConcatEqualIffEmpty DEF File
    <2> QED BY <1>1, <2>1 DEF RangeInv, HeadInv, Idle
<1>5. PastInv'
    BY FileFacts DEF RangeInv, PastInv, Idle, session
<1>6. JobInv'
    BY DEF JobInv, Idle
<1>7. PairInv'
    BY FileFacts DEF RangeInv, PairInv, Idle
<1> QED BY <1>2, <1>3, <1>4, <1>5, <1>6, <1>7 DEF RangeInv

\* The session goes by what is in the directory.
LEMMA OpenInv ==
    ASSUME RangeInv, Open
    PROVE  RangeInv'
<1>1. session' = session /\ session \in Nat /\ created \in 0 .. session /\ session > 0
    BY LenProperties DEF RangeInv, TypeOK, Shape, Open, session
<1>2. File' = File
    BY DEF Open, File
<1>3. created = 0 => File = <<>> /\ data = <<>>
    BY FileFacts, ConcatEqualIffEmpty DEF RangeInv, HeadInv, File
<1>4. TypeOK'
    BY <1>1 DEF RangeInv, TypeOK, Open
<1>5. Shape'
    BY <1>1 DEF RangeInv, TypeOK, Shape, Open
<1>6. HeadInv'
    <2>1. CASE created = 0
        <3>1. Headed(<<>>, created')
            BY DEF Headed
        <3>2. data' = <<>> /\ File' = <<>>
            BY <1>2, <1>3, <2>1 DEF Open
        <3>3. header' /\ created' = session' /\ created' # 0
            <4>1. header' = (created = 0) /\ created' = session
                BY <2>1 DEF Open
            <4>2. header'
                BY <2>1, <4>1, Zenon
            <4> QED BY <1>1, <4>1, <4>2
        <3> QED BY <3>1, <3>2, <3>3 DEF HeadInv
    <2>2. CASE created # 0
        <3>1. created' = created /\ ~header' /\ created' # session' /\ data' = data
            <4>1. header' = (created = 0) /\ created' = created /\ data' = data
                BY <2>2 DEF Open
            <4>2. ~header'
                BY <2>2, <4>1, Zenon
            <4>3. created < session
                BY DEF RangeInv, Shape, Open
            <4> QED BY <1>1, <4>1, <4>2, <4>3
        <3> QED BY <1>2, <2>2, <3>1 DEF RangeInv, HeadInv
    <2> QED BY <2>1, <2>2
<1>7. PastInv'
    BY <1>1 DEF RangeInv, PastInv, Open
<1>8. JobInv' /\ PairInv'
    BY DEF RangeInv, TypeOK, Shape, JobInv, PairInv, Open
<1> QED BY <1>4, <1>5, <1>6, <1>7, <1>8 DEF RangeInv

-----------------------------------------------------------------------------
(* The phases.                                                             *)

\* What the invariant says of the file and the past only changes with them.
LEMMA SameFile ==
    ASSUME RangeInv, UNCHANGED <<asked, fileVars>>,
           pc' \notin {"idle", "opening"}, pc \notin {"idle", "opening"}
    PROVE  HeadInv' /\ PastInv'
    BY DEF RangeInv, HeadInv, PastInv, File, fileVars, session

\* A phase begins with all blocks.
LEMMA EnterInv ==
    ASSUME RangeInv, FindBytecodes \/ Compile
    PROVE  RangeInv'
<1> USE DEF FindBytecodes, Compile, EnterPhase
<1>1. TypeOK'
    <2>1. tx' \in [Block -> Nat] /\ \A b \in Block : tx'[b] <= TxCount[b]
        BY BlockRangeAssumption
    <2> QED BY <2>1 DEF RangeInv, TypeOK, fileVars, session
<1>2. Shape'
    BY DEF RangeInv, Shape, session, fileVars
<1>3. HeadInv' /\ PastInv'
    BY SameFile
<1>4. JobInv'
    BY DEF JobInv
<1>5. PairInv'
    BY DEF RangeInv, PairInv, NothingToPick, NativeDone, Pick, args, session, fileVars
<1> QED BY <1>1, <1>2, <1>3, <1>4, <1>5 DEF RangeInv

\* The native phase ends well only with a record of each block.
LEMMA NativeEnds ==
    ASSUME RangeInv, PhaseOver, pc = "native", Wrong = {}, pc' = "compile",
           UNCHANGED <<seed, asked, block_iter, job, tx, fileVars, returned>>
    PROVE  RangeInv'
<1>1. ASSUME NEW b \in block_iter
      PROVE  b \in Block /\ job[b] \in {"written", "skipped"}
    <2>1. b \in Block /\ job[b] # "waiting" /\ b \notin Active /\ b \notin Wrong
        BY DEF RangeInv, TypeOK, PhaseOver
    <2> QED BY <2>1 DEF RangeInv, TypeOK, Active, Wrong
<1>2. TypeOK'
    BY DEF RangeInv, TypeOK, session, fileVars
<1>3. Shape'
    BY <1>1 DEF RangeInv, Shape, session, fileVars
<1>4. HeadInv' /\ PastInv'
    BY SameFile
<1>5. JobInv'
    BY DEF RangeInv, JobInv, NothingToPick, Pick, args, session
<1>6. ASSUME NEW b \in block_iter PROVE NothingToPick(b) \/ NativeDone(b)
    <2>1. CASE job[b] = "skipped"
        BY <1>1, <2>1 DEF RangeInv, JobInv
    <2>2. CASE job[b] = "written"
        <3>1. PICK i \in DOMAIN data : data[i] = Measurement(b)
            BY <1>1, <2>2 DEF RangeInv, JobInv
        <3>2. args.seeded => tx[b] = Pick(b)
            BY <1>1, <2>2 DEF RangeInv, JobInv
        <3>3. Measurement(b) \in Record
            BY <1>1, LenProperties DEF RangeInv, TypeOK, Measurement, Record, session
        <3>4. Measurement(b) # Header
            BY <3>3, BlockRangeAssumption DEF Record
        <3> QED BY <3>1, <3>2, <3>4 DEF NativeDone, Measurement
    <2> QED BY <1>1, <2>1, <2>2
<1>7. PairInv'
    BY <1>6 DEF RangeInv, PairInv, NothingToPick, NativeDone, Pick, args, session, fileVars
<1> QED BY <1>2, <1>3, <1>4, <1>5, <1>7 DEF RangeInv

-----------------------------------------------------------------------------
(* The blocks.                                                             *)

\* A worker that takes a block picks what the seed picks.
LEMMA BeginInv ==
    ASSUME RangeInv, NEW b \in Block, Begin(b)
    PROVE  RangeInv'
<1>1. /\ pc \in {"native", "aot"} /\ b \in block_iter /\ session > 0
      /\ UNCHANGED <<blockFrame, fileVars>>
    BY DEF RangeInv, Shape, Begin
<1>2. session \in Nat /\ args \in Arguments /\ args' = args /\ session' = session
    BY <1>1, LenProperties, ElementOfSeq DEF RangeInv, TypeOK, args, session, blockFrame
<1>3. PICK state \in {"sim", "skipped", "failed", "panicked"}, k \in Nat :
         /\ job' = [job EXCEPT ![b] = state]
         /\ tx' = [tx EXCEPT ![b] = k] /\ k <= TxCount[b]
         /\ state = "sim" => ~NothingToPick(b) /\ (args.seeded => k = Pick(b))
         /\ state = "skipped" => NothingToPick(b)
    <2> DEFINE Picked(state, k) ==
             /\ job' = [job EXCEPT ![b] = state]
             /\ tx' = [tx EXCEPT ![b] = k] /\ k <= TxCount[b]
             /\ state = "sim" => ~NothingToPick(b) /\ (args.seeded => k = Pick(b))
             /\ state = "skipped" => NothingToPick(b)
    <2>1. tx[b] \in Nat /\ tx[b] <= TxCount[b] /\ [tx EXCEPT ![b] = tx[b]] = tx
        BY DEF RangeInv, TypeOK
    <2>2. CASE args.run_rnd_txs /\ CreateRndTxSim(b)
        <3>1. CASE TxCount[b] = 0
            <4>1. Picked("skipped", tx[b])
                BY <2>1, <2>2, <3>1 DEF CreateRndTxSim, SetJob, NothingToPick
            <4> QED BY <2>1, <4>1
        <3>2. CASE TxCount[b] # 0
            <4>1. PICK drawn \in Drawn(1 .. TxsLen(args, b), {}, 1, args.seeded) :
                     \/ drawn = {} /\ SetJob(b, "panicked") /\ UNCHANGED tx
                     \/ \E k \in drawn :
                           IF InBounds(b, k)
                           THEN SetJob(b, "sim") /\ tx' = [tx EXCEPT ![b] = k]
                           ELSE SetJob(b, "panicked") /\ UNCHANGED tx
                BY <2>2, <3>2 DEF CreateRndTxSim
            <4>2. CASE SetJob(b, "panicked") /\ UNCHANGED tx
                <5>1. Picked("panicked", tx[b])
                    BY <2>1, <4>2 DEF SetJob
                <5> QED BY <2>1, <5>1
            <4>3. ASSUME NEW k \in drawn, InBounds(b, k),
                         SetJob(b, "sim"), tx' = [tx EXCEPT ![b] = k]
                  PROVE  \E state \in {"sim", "skipped", "failed", "panicked"}, kk \in Nat :
                             Picked(state, kk)
                <5>1. k \in Nat /\ (args.seeded => k = Pick(b))
                    BY <1>2, <2>2, PickIsDrawn DEF RangeInv, TypeOK, Pick
                <5>2. Picked("sim", k)
                    BY <3>2, <4>3, <5>1 DEF SetJob, InBounds, NothingToPick
                <5> QED BY <5>1, <5>2
            <4> QED BY <4>1, <4>2, <4>3
        <3> QED BY <3>1, <3>2
    <2>3. CASE ~args.run_rnd_txs /\ CreateBlockSim(b)
        <3>1. tx[b] = 0
            BY DEF Begin, RangeInv, JobInv
        <3>2. PICK state \in {"panicked", "sim"} : SetJob(b, state)
            BY <2>3 DEF CreateBlockSim
        <3>3. Picked(state, tx[b])
            BY <2>1, <2>3, <3>1, <3>2 DEF CreateBlockSim, SetJob, NothingToPick, Pick
        <3> QED BY <2>1, <3>3
    <2>4. CASE SetJob(b, "failed") /\ UNCHANGED tx
        <3>1. Picked("failed", tx[b])
            BY <2>1, <2>4 DEF SetJob
        <3> QED BY <2>1, <3>1
    <2> QED BY <2>2, <2>3, <2>4 DEF Begin
<1>4. TypeOK'
    BY <1>1, <1>2, <1>3 DEF RangeInv, TypeOK, blockFrame, fileVars
<1>5. Shape'
    BY <1>1, <1>2, <1>3 DEF RangeInv, TypeOK, Shape, blockFrame, fileVars
<1>6. HeadInv' /\ PastInv'
    BY <1>1, SameFile DEF blockFrame
<1>7. JobInv'
    <2> SUFFICES ASSUME NEW x \in Block
                 PROVE  /\ job'[x] = "waiting" => tx'[x] = 0
                        /\ job'[x] \in {"sim", "measured", "written"} =>
                              ~NothingToPick(x)' /\ (args'.seeded => tx'[x] = Pick(x)')
                        /\ job'[x] = "skipped" => NothingToPick(x)'
                        /\ job'[x] = "written" /\ pc' # "compile" =>
                              \E i \in DOMAIN data' : data'[i] = Measurement(x)'
        BY DEF JobInv
    <2>1. /\ NothingToPick(x)' <=> NothingToPick(x)
          /\ Pick(x)' = Pick(x)
          /\ data' = data /\ pc' = pc
        BY <1>1, <1>2 DEF NothingToPick, Pick, blockFrame, fileVars
    <2>2. CASE x = b
        BY <1>2, <1>3, <2>1, <2>2 DEF RangeInv, TypeOK
    <2>3. CASE x # b
        <3>1. job'[x] = job[x] /\ tx'[x] = tx[x]
            BY <1>3, <2>3 DEF RangeInv, TypeOK
        <3> QED BY <1>2, <2>1, <3>1 DEF RangeInv, JobInv, Measurement
    <2> QED BY <2>2, <2>3
<1>8. PairInv'
    BY <1>1, <1>2 DEF RangeInv, PairInv, NothingToPick, NativeDone, Pick, blockFrame, fileVars
<1> QED BY <1>4, <1>5, <1>6, <1>7, <1>8 DEF RangeInv

\* The check and the measurement leave the pick alone.
LEMMA SimulateInv ==
    ASSUME RangeInv, NEW b \in Block, Simulate(b)
    PROVE  RangeInv'
<1>1. /\ pc \in {"native", "aot"} /\ b \in block_iter /\ session > 0
      /\ UNCHANGED <<blockFrame, tx, fileVars>> /\ session' = session /\ args' = args
    BY DEF RangeInv, TypeOK, Shape, Simulate, blockFrame, session, args
<1>2. PICK state \in {"measured", "failed", "panicked"} : job' = [job EXCEPT ![b] = state]
    BY DEF Simulate, SetJob
<1>3. TypeOK'
    BY <1>1, <1>2 DEF RangeInv, TypeOK, blockFrame, fileVars
<1>4. Shape'
    BY <1>1, <1>2 DEF RangeInv, TypeOK, Shape, blockFrame, fileVars
<1>5. HeadInv' /\ PastInv'
    BY <1>1, SameFile DEF blockFrame
<1>6. JobInv'
    BY <1>1, <1>2 DEF RangeInv, TypeOK, JobInv, NothingToPick, Pick, Measurement, Simulate,
        blockFrame, fileVars
<1>7. PairInv'
    BY <1>1 DEF RangeInv, PairInv, NothingToPick, NativeDone, Pick, blockFrame, fileVars
<1> QED BY <1>3, <1>4, <1>5, <1>6, <1>7 DEF RangeInv

\* The lines of a measurement fit what is in the file and in the buffer.
LEMMA LinesFit ==
    ASSUME RangeInv, NEW b \in Block, job[b] = "measured"
    PROVE  /\ Measurement(b) \in Record /\ Measurement(b) # Header
           /\ Lines(b) \in Seq(Line) /\ Len(Lines(b)) > 0
           /\ Lines(b)[Len(Lines(b))] = Measurement(b)
           /\ \A k \in 1 .. Len(Lines(b)) : Lines(b)[k] \in {Header, Measurement(b)}
           /\ Headed(File \o Lines(b), created)
           /\ IsCompiled(Measurement(b)) =>
                 \E j \in DOMAIN data : Partner(data[j], Measurement(b), asked)
<1>1. /\ pc \in {"native", "aot"} /\ b \in block_iter
      /\ session > 0 /\ session \in Nat /\ created > 0
    BY LenProperties DEF RangeInv, TypeOK, Shape, session
<1>2. Measurement(b) \in Record
    BY <1>1 DEF RangeInv, TypeOK, Measurement, Record
<1>3. Measurement(b) # Header /\ Measurement(b).session = session
    BY <1>2, BlockRangeAssumption DEF Record, Measurement
<1>4. ASSUME header
      PROVE  Lines(b) = <<Header, Measurement(b)>> /\ Headed(File \o Lines(b), created)
    <2>1. Lines(b) = <<Header, Measurement(b)>> /\ File = <<>> /\ created = session
        BY <1>4 DEF Lines, RangeInv, HeadInv
    <2>2. Lines(b) \in Seq(Line)
        BY <1>2, <2>1 DEF Line
    <2>3. File \o Lines(b) = Lines(b)
        BY <2>1, <2>2, ConcatEmptySeq
    <2> QED BY <1>2, <1>3, <2>1, <2>3, HeadedFromStart
<1>5. ASSUME ~header
      PROVE  Lines(b) = <<Measurement(b)>> /\ Headed(File \o Lines(b), created)
    <2>1. Lines(b) = <<Measurement(b)>>
        BY <1>5 DEF Lines
    <2>2. File = <<>> => session # created
        BY <1>1, <1>5 DEF RangeInv, HeadInv
    <2>3. Headed(File \o <<Measurement(b)>>, created)
        BY <1>2, <1>3, <2>2, FileFacts, HeadedThenRecord DEF RangeInv, HeadInv
    <2> QED BY <2>1, <2>3
<1>6. ASSUME IsCompiled(Measurement(b))
      PROVE  \E j \in DOMAIN data : Partner(data[j], Measurement(b), asked)
    <2>1. pc = "aot"
        BY <1>6 DEF IsCompiled, Measurement
    <2>2. NativeDone(b) /\ (args.seeded => tx[b] = Pick(b))
        BY <1>1, <2>1 DEF RangeInv, PairInv, JobInv
    <2>3. PICK j \in DOMAIN data :
             /\ data[j] # Header /\ data[j].run_type = "native"
             /\ data[j].session = session /\ data[j].block = b
             /\ args.seeded => data[j].tx = Pick(b)
        BY <2>2 DEF NativeDone
    <2> QED BY <2>2, <2>3 DEF Partner, Measurement, args
<1>7. /\ Lines(b) \in Seq(Line) /\ Len(Lines(b)) > 0
      /\ Lines(b)[Len(Lines(b))] = Measurement(b)
      /\ \A k \in 1 .. Len(Lines(b)) : Lines(b)[k] \in {Header, Measurement(b)}
    <2>1. Measurement(b) \in Line /\ Header \in Line
        BY <1>2 DEF Line
    <2>2. \A h, m : h \in Line /\ m \in Line =>
             /\ <<h, m>> \in Seq(Line) /\ Len(<<h, m>>) = 2
             /\ <<h, m>>[1] = h /\ <<h, m>>[2] = m
        OBVIOUS
    <2>3. \A m : m \in Line =>
             <<m>> \in Seq(Line) /\ Len(<<m>>) = 1 /\ <<m>>[1] = m
        OBVIOUS
    <2>4. CASE header
        <3>1. Lines(b) = <<Header, Measurement(b)>>
            BY <1>4, <2>4
        <3>2. Lines(b) \in Seq(Line) /\ Len(Lines(b)) = 2
            BY <2>1, <2>2, <3>1
        <3>3. Lines(b)[1] = Header /\ Lines(b)[2] = Measurement(b)
            BY <3>1
        <3> QED BY <3>2, <3>3
    <2>5. CASE ~header
        <3>1. /\ Lines(b) \in Seq(Line) /\ Len(Lines(b)) = 1 /\ Lines(b)[1] = Measurement(b)
            BY <1>5, <2>1, <2>3, <2>5, Zenon
        <3> QED BY <3>1
    <2> QED BY <2>4, <2>5
<1> QED BY <1>2, <1>3, <1>4, <1>5, <1>6, <1>7

\* A record that is written is in the file, one that is not is in the buffer.
LEMMA WriteInv ==
    ASSUME RangeInv, NEW b \in Block, WriteMeasurement(b)
    PROVE  /\ RangeInv'
           /\ \A i \in DOMAIN data : i \in DOMAIN data' /\ data'[i] = data[i]
<1> DEFINE lines == Lines(b)
           more == buffer \o lines
<1>1. /\ pc \in {"native", "aot"} /\ b \in block_iter /\ session > 0
      /\ UNCHANGED <<blockFrame, tx, created>> /\ session' = session /\ args' = args
      /\ job[b] = "measured" /\ header' = FALSE /\ session \in Nat /\ created > 0
    BY LenProperties
        DEF RangeInv, TypeOK, Shape, WriteMeasurement, blockFrame, session, args
<1>2. /\ Measurement(b) \in Record /\ Measurement(b) # Header
      /\ lines \in Seq(Line) /\ Len(lines) > 0 /\ lines[Len(lines)] = Measurement(b)
      /\ \A k \in 1 .. Len(lines) : lines[k] \in {Header, Measurement(b)}
      /\ Headed(File \o lines, created)
      /\ IsCompiled(Measurement(b)) =>
            \E j \in DOMAIN data : Partner(data[j], Measurement(b), asked)
    BY <1>1, LinesFit
<1> HIDE DEF lines
<1>3. /\ data \in Seq(Line) /\ buffer \in Seq(Line) /\ File \in Seq(Line)
      /\ Len(data) \in Nat /\ DOMAIN data = 1 .. Len(data)
      /\ Len(buffer) \in Nat /\ DOMAIN buffer = 1 .. Len(buffer)
      /\ Len(lines) \in Nat /\ DOMAIN lines = 1 .. Len(lines)
    BY <1>2, FileFacts, LenProperties
<1>4. /\ more \in Seq(Line) /\ Len(more) = Len(buffer) + Len(lines)
      /\ DOMAIN more = 1 .. Len(more)
      /\ \A i \in 1 .. Len(buffer) + Len(lines) :
            more[i] = IF i <= Len(buffer) THEN buffer[i] ELSE lines[i - Len(buffer)]
    BY <1>2, <1>3, ConcatProperties, LenProperties
<1> HIDE DEF more
<1>5. File \o lines = data \o more
    BY <1>2, <1>3, ConcatAssociative DEF File, more
<1>6. /\ data \o more \in Seq(Line) /\ Len(data \o more) = Len(data) + Len(more)
      /\ DOMAIN (data \o more) = 1 .. Len(data) + Len(more)
      /\ \A i \in 1 .. Len(data) + Len(more) :
            (data \o more)[i] = IF i <= Len(data) THEN data[i] ELSE more[i - Len(data)]
    <2>0. data \in Seq(Line) /\ more \in Seq(Line)
        BY <1>3, <1>4
    <2>1. /\ data \o more \in Seq(Line) /\ Len(data \o more) = Len(data) + Len(more)
          /\ \A i \in 1 .. Len(data) + Len(more) :
                (data \o more)[i] = IF i <= Len(data) THEN data[i] ELSE more[i - Len(data)]
        BY <2>0, ConcatProperties
    <2>2. DOMAIN (data \o more) = 1 .. Len(data \o more)
        BY <2>1, LenProperties
    <2>3. DOMAIN (data \o more) = 1 .. Len(data) + Len(more)
        BY <2>1, <2>2, Zenon
    <2> QED BY <2>1, <2>3, Zenon
<1>7. \A k \in DOMAIN more :
          \/ k \in DOMAIN buffer /\ more[k] = buffer[k]
          \/ more[k] \in {Header, Measurement(b)}
    <2> SUFFICES ASSUME NEW k \in DOMAIN more, k > Len(buffer)
                 PROVE  more[k] \in {Header, Measurement(b)}
        BY <1>3, <1>4
    <2>1. k - Len(buffer) \in 1 .. Len(lines) /\ more[k] = lines[k - Len(buffer)]
        BY <1>3, <1>4
    <2> QED BY <1>2, <2>1
<1>8. Paired(data \o more, asked)
    <2>1. ASSUME NEW k \in DOMAIN more, IsCompiled(more[k])
          PROVE  \E j \in DOMAIN data : Partner(data[j], more[k], asked)
        BY <1>2, <1>7, <2>1 DEF RangeInv, PairInv, IsCompiled
    <2> QED BY <1>3, <1>4, <2>1, PairedConcat DEF RangeInv, PairInv
<1>9. \A k \in DOMAIN more : more[k] # Header => more[k].session \in 1 .. session
    BY <1>1, <1>7 DEF RangeInv, PastInv, Measurement
<1>10. PICK state \in {"written", "failed"} :
          /\ job' = [job EXCEPT ![b] = state]
          /\ IF state = "written" THEN data' = data \o more /\ buffer' = <<>>
                                  ELSE data' = data /\ buffer' = more
    <2>1. data \o buffer \o Lines(b) = data \o more
        BY <1>5 DEF File, lines
    <2> QED BY <2>1 DEF WriteMeasurement, SetJob, more, lines
<1>11. File' = data \o more
    BY <1>6, <1>10, ConcatEmptySeq DEF File
<1>12. TypeOK'
    <2>1. data' \in Seq(Record \cup {Header}) /\ buffer' \in Seq(Record \cup {Header})
        BY <1>4, <1>6, <1>10, EmptySeq DEF RangeInv, TypeOK, Line
    <2>2. job' \in [Block -> {"waiting", "sim", "measured", "written", "skipped",
                              "failed", "panicked"}]
        BY <1>10 DEF RangeInv, TypeOK
    <2> QED BY <1>1, <2>1, <2>2 DEF RangeInv, TypeOK, blockFrame
<1>13. Shape'
    BY <1>1, <1>10 DEF RangeInv, TypeOK, Shape, blockFrame
<1>14. HeadInv'
    <2>1. Headed(data', created) /\ Headed(File', created)
        BY <1>2, <1>5, <1>10, <1>11 DEF RangeInv, HeadInv
    <2>2. File' # <<>>
        BY <1>2, <1>3, <1>4, <1>6, <1>11, EmptySeq
    <2> QED BY <1>1, <2>1, <2>2 DEF HeadInv
<1>15. PastInv'
    <2>1. ASSUME NEW i \in DOMAIN (data \o more), (data \o more)[i] # Header
          PROVE  (data \o more)[i].session \in 1 .. session
        <3>1. CASE i <= Len(data)
            BY <1>3, <1>6, <2>1, <3>1 DEF RangeInv, PastInv
        <3>2. CASE i > Len(data)
            <4>1. i - Len(data) \in DOMAIN more /\ (data \o more)[i] = more[i - Len(data)]
                BY <1>3, <1>4, <1>6, <3>2
            <4> QED BY <1>9, <2>1, <4>1
        <3> QED BY <1>3, <1>6, <3>1, <3>2
    <2> QED BY <1>1, <1>9, <1>10, <2>1 DEF RangeInv, PastInv
<1>16. \A i \in DOMAIN data : i \in DOMAIN data' /\ data'[i] = data[i]
    BY <1>3, <1>4, <1>6, <1>10
<1>17. ASSUME job'[b] = "written"
       PROVE  \E i \in DOMAIN data' : data'[i] = Measurement(b)
    <2>1. data' = data \o more
        BY <1>1, <1>10, <1>17 DEF RangeInv, TypeOK
    <2>2. more[Len(more)] = Measurement(b)
        BY <1>2, <1>3, <1>4
    <2>3. Len(data) + Len(more) \in DOMAIN (data \o more) /\ Len(more) > 0
        BY <1>2, <1>3, <1>4, <1>6
    <2>4. (data \o more)[Len(data) + Len(more)] = more[Len(more)]
        BY <1>3, <1>4, <1>6, <2>3
    <2> QED BY <2>1, <2>2, <2>3, <2>4
<1>18. JobInv'
    <2>1. ASSUME NEW x \in Block
          PROVE  /\ NothingToPick(x)' <=> NothingToPick(x)
                 /\ Pick(x)' = Pick(x) /\ Measurement(x)' = Measurement(x)
        BY <1>1 DEF NothingToPick, Pick, Measurement, blockFrame
    <2>2. ASSUME NEW x \in Block, x # b PROVE job'[x] = job[x]
        BY <1>10, <2>2 DEF RangeInv, TypeOK
    <2>3. job'[b] \in {"written", "failed"}
        BY <1>10 DEF RangeInv, TypeOK
    <2>4. ASSUME NEW x \in Block, \E i \in DOMAIN data : data[i] = Measurement(x)
          PROVE  \E i \in DOMAIN data' : data'[i] = Measurement(x)
        BY <1>16, <2>4
    <2> QED BY <1>1, <1>17, <2>1, <2>2, <2>3, <2>4 DEF RangeInv, JobInv, blockFrame
<1>19. PairInv'
    <2>1. ASSUME NEW x \in block_iter, NativeDone(x) PROVE NativeDone(x)'
        BY <1>1, <1>16, <2>1 DEF NativeDone, Pick, blockFrame
    <2>2. Paired(data', asked')
        BY <1>1, <1>8, <1>10 DEF RangeInv, PairInv, blockFrame
    <2>3. ASSUME NEW k \in DOMAIN more, IsCompiled(more[k])
          PROVE  \E j \in DOMAIN data : Partner(data[j], more[k], asked)
        BY <1>2, <1>7, <2>3 DEF RangeInv, PairInv, IsCompiled
    <2> QED BY <1>1, <1>10, <2>1, <2>2, <2>3
            DEF RangeInv, PairInv, NothingToPick, blockFrame
<1> QED BY <1>12, <1>13, <1>14, <1>15, <1>16, <1>18, <1>19 DEF RangeInv

-----------------------------------------------------------------------------
(* The specification.                                                      *)

\* Each step keeps the invariant, and what is in the file.
LEMMA RangeNext ==
    RangeInv /\ [Next]_vars =>
        /\ RangeInv'
        /\ \A i \in DOMAIN data : i \in DOMAIN data' /\ data'[i] = data[i]
<1> DEFINE Kept == \A i \in DOMAIN data : i \in DOMAIN data' /\ data'[i] = data[i]
<1> SUFFICES ASSUME RangeInv, [Next]_vars PROVE RangeInv' /\ Kept
    OBVIOUS
<1>1. returned \subseteq 1 .. session
      /\ (pc # "idle" => returned \cup {session} \subseteq 1 .. session)
    <2>1. session \in Nat /\ returned \subseteq 1 .. session
        BY LenProperties DEF RangeInv, TypeOK, session
    <2>2. pc # "idle" => session > 0
        BY DEF RangeInv, Shape
    <2> QED BY <2>1, <2>2
<1>2. data' = data \/ data' = File => Kept
    BY FileFacts
<1>3. CASE \E a \in Arguments : Start(a)
    <2>1. RangeInv'
        BY <1>3, StartInv
    <2> QED BY <1>2, <1>3, <2>1 DEF Start, fileVars
<1>4. CASE Open
    BY <1>2, <1>4, OpenInv DEF Open
<1>5. CASE FindBytecodes \/ Compile
    <2>1. data' = data
        BY <1>5 DEF FindBytecodes, Compile, EnterPhase, fileVars
    <2> QED BY <1>2, <1>5, <2>1, EnterInv
<1>6. CASE Fail("opening", "open") \/ Fail("opened", "bytecodes") \/ Fail("compile", "compile")
    <2>1. /\ Idle /\ (data' = data \/ data' = File)
          /\ UNCHANGED <<seed, asked, created>> /\ returned' \subseteq 1 .. session
        BY <1>1, <1>6 DEF Fail, Leave, File
    <2> QED BY <1>2, <2>1, IdleInv
<1>7. CASE EndPhase
    <2>1. CASE pc = "native" /\ Wrong = {} /\ pc' = "compile"
               /\ UNCHANGED <<seed, asked, block_iter, job, tx, fileVars, returned>>
        <3>1. PhaseOver /\ data' = data
            BY <1>7, <2>1 DEF EndPhase, fileVars
        <3> QED BY <1>2, <2>1, <3>1, NativeEnds
    <2>2. CASE Leave /\ UNCHANGED <<seed, asked, created>>
               /\ returned' = IF Wrong = {} THEN returned \cup {session} ELSE returned
        <3>1. Idle /\ (data' = data \/ data' = File)
            BY <2>2 DEF Leave, File
        <3>2. pc # "idle"
            BY <1>7 DEF EndPhase, PhaseOver
        <3>3. returned' \subseteq 1 .. session
            BY <1>1, <2>2, <3>2
        <3> QED BY <1>2, <2>2, <3>1, <3>3, IdleInv
    <2> QED BY <1>7, <2>1, <2>2 DEF EndPhase
<1>8. CASE \E b \in Block : Begin(b)
    <2>1. RangeInv'
        BY <1>8, BeginInv
    <2> QED BY <1>2, <1>8, <2>1 DEF Begin, fileVars
<1>9. CASE \E b \in Block : Simulate(b)
    <2>1. PICK b \in Block : Simulate(b)
        BY <1>9
    <2>2. RangeInv'
        BY <2>1, SimulateInv
    <2> QED BY <1>2, <2>1, <2>2 DEF Simulate, fileVars
<1>10. CASE \E b \in Block : WriteMeasurement(b)
    BY <1>10, WriteInv
<1>11. CASE Crash
    <2>1. /\ Idle /\ data' = data
          /\ UNCHANGED <<seed, asked, created>> /\ returned' \subseteq 1 .. session
        BY <1>1, <1>11 DEF Crash
    <2> QED BY <1>2, <2>1, IdleInv
<1>12. CASE UNCHANGED vars
    <2>1. RangeInv'
        BY <1>12 DEF vars, fileVars, RangeInv, TypeOK, Shape, HeadInv, File, PastInv, JobInv,
            PairInv, NothingToPick, NativeDone, Pick, Measurement, args, session
    <2> QED BY <1>2, <1>12, <2>1 DEF vars, fileVars
<1> QED
    BY <1>3, <1>4, <1>5, <1>6, <1>7, <1>8, <1>9, <1>10, <1>11, <1>12 DEF Next, Work

\* The invariant always holds.
LEMMA RangeAlways == Spec => []RangeInv
<1>1. RangeInv /\ [Next]_vars => RangeInv'
    BY RangeNext
<1> QED BY RangeInit, <1>1, PTL DEF Spec

\* The state keeps its type; no record names a transaction that its block
\* does not have, whatever part of the block was asked for.
THEOREM RangeTypes == Spec => []TypeOK
<1>1. RangeInv => TypeOK
    BY DEF RangeInv
<1> QED BY RangeAlways, <1>1, PTL

\* Whatever number of sessions append to data.csv and however each of them
\* ends: no column names in the middle, and at the beginning exactly when the
\* first record is of the session that created the file.
THEOREM HeaderIsCreators == Spec => []HeaderOfCreator
<1>1. RangeInv => HeaderOfCreator
    BY DEF RangeInv, HeadInv, Headed, HeaderOfCreator
<1> QED BY RangeAlways, <1>1, PTL

\* No session ever writes a measurement of compiled code without the native
\* measurement to hold it against, of the same transaction if it is seeded.
THEOREM CompiledHasNative == Spec => []CompiledIsPaired
<1>1. RangeInv => CompiledIsPaired
    BY DEF RangeInv, PairInv, Paired, IsCompiled, Partner, CompiledIsPaired
<1> QED BY RangeAlways, <1>1, PTL

\* A record that write_measurement returned from is in the file and stays
\* there, through errors, panics, crashes and later sessions.
THEOREM RecordsStay == Spec => WrittenIsKept
<1> DEFINE Keeps ==
        /\ \A b \in block_iter :
              pc # "compile" /\ job[b] = "written" =>
                  \E i \in DOMAIN data : data[i] = Measurement(b)
        /\ Len(data) <= Len(data') /\ \A i \in DOMAIN data : data'[i] = data[i]
<1>1. RangeInv /\ [Next]_vars => Keeps
    <2> SUFFICES ASSUME RangeInv, [Next]_vars PROVE Keeps
        OBVIOUS
    <2>1. \A b \in block_iter :
              pc # "compile" /\ job[b] = "written" =>
                  \E i \in DOMAIN data : data[i] = Measurement(b)
        BY DEF RangeInv, TypeOK, JobInv
    <2>2. RangeInv' /\ \A i \in DOMAIN data : i \in DOMAIN data' /\ data'[i] = data[i]
        BY RangeNext
    <2>3. /\ Len(data) \in Nat /\ DOMAIN data = 1 .. Len(data)
          /\ Len(data') \in Nat /\ DOMAIN data' = 1 .. Len(data')
        BY <2>2, LenProperties DEF RangeInv, TypeOK
    <2>4. Len(data) <= Len(data')
        <3>1. CASE Len(data) = 0
            BY <2>3, <3>1
        <3>2. CASE Len(data) > 0
            <4>1. Len(data) \in DOMAIN data
                BY <2>3, <3>2
            <4>2. Len(data) \in DOMAIN data'
                BY <2>2, <4>1
            <4> QED BY <2>3, <4>2
        <3> QED BY <2>3, <3>1, <3>2
    <2> QED BY <2>1, <2>2, <2>4
<1>2. RangeInv /\ [Next]_vars => [Keeps]_vars
    BY <1>1
<1> QED BY RangeAlways, <1>2, PTL DEF Spec, WrittenIsKept

-----------------------------------------------------------------------------
(* What a step does, as far as samples and records go.                     *)

\* The session goes on, without a line: within a phase, or into the next part.
Quiet ==
    /\ UNCHANGED <<seed, asked, block_iter, data, buffer, returned>>
    /\ \/ /\ pc' = pc /\ pc \in {"native", "aot"}
          /\ \A b \in Block : job[b] \in {"written", "failed"} => job'[b] = job[b]
       \/ pc = "opening" /\ pc' = "opened"
       \/ pc = "opened" /\ pc' = "native"
       \/ pc = "native" /\ Wrong = {} /\ pc' = "compile"
       \/ pc = "compile" /\ pc' = "aot"

\* A session ends, with the buffer in the file or not.
Ends ==
    /\ Idle /\ pc # "idle" /\ (data' = data \/ data' = File)
    /\ UNCHANGED <<seed, asked>>
    /\ \/ returned' = returned
       \/ /\ pc = "aot" /\ Wrong = {} /\ PhaseOver
          /\ returned' = returned \cup {session}

LEMMA StepKinds ==
    ASSUME RangeInv, Next
    PROVE  \/ \E a \in Arguments : Start(a)
           \/ Quiet \/ Ends
           \/ \E b \in Block : WriteMeasurement(b)
<1>1. CASE \E a \in Arguments : Start(a)
    BY <1>1
<1>2. CASE Open \/ FindBytecodes \/ Compile
    BY <1>2 DEF Open, FindBytecodes, Compile, EnterPhase, fileVars, Quiet
<1>3. CASE \E b \in Block : Begin(b) \/ Simulate(b)
    <2>1. pc \in {"native", "aot"}
        BY <1>3 DEF RangeInv, Shape, Begin, Simulate
    <2>2. PICK b \in Block : Begin(b) \/ Simulate(b)
        BY <1>3
    <2>3. job[b] \in {"waiting", "sim"} /\ \A x \in Block \ {b} : job'[x] = job[x]
        BY <2>2 DEF Begin, CreateRndTxSim, CreateBlockSim, Simulate, SetJob, RangeInv, TypeOK
    <2> QED BY <2>1, <2>2, <2>3 DEF Begin, Simulate, blockFrame, fileVars, Quiet
<1>4. CASE \E b \in Block : WriteMeasurement(b)
    BY <1>4
<1>5. CASE Fail("opening", "open") \/ Fail("opened", "bytecodes") \/ Fail("compile", "compile")
    BY <1>5 DEF Fail, Leave, Ends, File
<1>6. CASE EndPhase
    BY <1>6 DEF EndPhase, PhaseOver, Leave, Ends, Quiet, File, fileVars
<1>7. CASE Crash
    BY <1>7 DEF Crash, Ends
<1> QED BY <1>1, <1>2, <1>3, <1>4, <1>5, <1>6, <1>7 DEF Next, Work

-----------------------------------------------------------------------------
(* Samples.                                                                *)

\* A shuffle puts no element in two places, so what is taken of it is as
\* large as was asked.
LEMMA TakenSize ==
    ASSUME NEW dice \in Shuffles, NEW S \in DOMAIN dice, IsFiniteSet(S), NEW size \in Nat
    PROVE  Cardinality(Taken(S, size, dice)) = Least(size, Cardinality(S))
<1> DEFINE n == Cardinality(S)
           m == Least(size, n)
           part == [k \in 1 .. m |-> dice[S][k]]
<1>1. n \in Nat /\ m \in Nat /\ m <= n
    BY FS_CardinalityType DEF Least
<1>2. IsFiniteSet(1 .. n) /\ Cardinality(1 .. n) = n
    BY <1>1, FS_Interval
<1>3. IsFiniteSet(1 .. m) /\ Cardinality(1 .. m) = m
    BY <1>1, FS_Interval
<1>4. dice[S] \in Surjection(1 .. n, S)
    BY ShufflesAssumption DEF Surjection
<1>5. dice[S] \in Injection(1 .. n, S)
    BY <1>2, <1>4, FS_SurjSameCardinalityImpliesInj
<1> HIDE DEF n, m
<1>6. part \in Bijection(1 .. m, Taken(S, size, dice))
    <2>1. \A k \in 1 .. m : k \in 1 .. n
        BY <1>1
    <2>2. \A j, k \in 1 .. m : dice[S][j] = dice[S][k] => j = k
        BY <1>5, <2>1 DEF Injection, IsInjective
    <2>3. Taken(S, size, dice) = {dice[S][k] : k \in 1 .. m}
        BY DEF Taken, m, n
    <2>4. part \in Surjection(1 .. m, Taken(S, size, dice))
        BY <2>3 DEF Surjection
    <2>5. part \in Injection(1 .. m, Taken(S, size, dice))
        BY <2>2, <2>3 DEF Injection, IsInjective
    <2> QED BY <2>4, <2>5 DEF Bijection
<1>7. ExistsBijection(1 .. m, Taken(S, size, dice))
    BY <1>6 DEF ExistsBijection
<1> QED BY <1>3, <1>7, FS_Bijection DEF m, n

\* The blocks of a new session are a sample as it was asked for.
LEMMA BlocksSampled ==
    ASSUME seed \in Shuffles, NEW a \in Arguments, a.sample # NoSample,
           NEW blocks \in BlockIters(a)
    PROVE  LET allowed == (a.start .. a.end - 1) \ a.blacklist
           IN  /\ blocks \subseteq allowed
               /\ Cardinality(blocks) = Least(a.sample, Cardinality(allowed))
<1> DEFINE range == a.start .. a.end - 1
           allowed == range \ a.blacklist
<1>1. a.start \in Int /\ a.end - 1 \in Int /\ a.sample \in Nat
    BY BlockRangeAssumption DEF Argument
<1>2. IsFiniteSet(allowed)
    BY <1>1, FS_Interval, FS_Subset
<1>3. PICK dice \in Shuffles : blocks = Taken(allowed, a.sample, dice)
    BY DEF BlockIters, Drawn, Dice
<1>4. allowed \in DOMAIN dice
    BY ShufflesAssumption
<1> HIDE DEF allowed
<1>5. /\ Taken(allowed, a.sample, dice) \subseteq allowed
      /\ Cardinality(Taken(allowed, a.sample, dice)) = Least(a.sample, Cardinality(allowed))
    BY <1>1, <1>2, <1>4, TakenWithin, TakenSize
<1> QED BY <1>3, <1>5 DEF allowed

LEMMA SampleNext ==
    ASSUME RangeInv, SampleSound, [Next]_vars
    PROVE  SampleSound'
<1>1. CASE \E a \in Arguments : Start(a)
    <2>1. PICK a \in Arguments : Start(a)
        BY <1>1
    <2>2. /\ asked' = Append(asked, a) /\ asked \in Seq(Arguments)
          /\ block_iter' \in BlockIters(a) /\ seed \in Shuffles
        BY <2>1 DEF Start, RangeInv, TypeOK
    <2>3. args' = a
        BY <2>2, AppendProperties DEF args, session
    <2> QED BY <2>2, <2>3, BlocksSampled DEF SampleSound
<1>2. CASE Quiet
    BY <1>2 DEF Quiet, SampleSound, args, session
<1>3. CASE Ends
    BY <1>3 DEF Ends, Idle, SampleSound
<1>4. CASE \E b \in Block : WriteMeasurement(b)
    <2>1. pc # "idle" /\ UNCHANGED <<asked, block_iter>>
        BY <1>4 DEF RangeInv, Shape, WriteMeasurement, blockFrame
    <2> QED BY <2>1 DEF SampleSound, args, session
<1>5. CASE UNCHANGED vars
    BY <1>5 DEF vars, SampleSound, args, session
<1> QED BY <1>1, <1>2, <1>3, <1>4, <1>5, StepKinds

\* For any shuffle that is a shuffle: a sample is within the range, leaves out
\* the blacklist, and has as many blocks as were asked for or are left.
THEOREM SamplesAreSound == Spec => []SampleSound
<1>1. Init => SampleSound
    BY DEF Init, SampleSound
<1>2. RangeInv /\ SampleSound /\ [Next]_vars => SampleSound'
    BY SampleNext
<1> QED BY RangeAlways, <1>1, <1>2, PTL DEF Spec

-----------------------------------------------------------------------------
(* Records.                                                                *)

\* Blocks that have no transaction to pick.
Skips(a, b) == a.run_rnd_txs /\ TxCount[b] = 0

Same(r, q) == r.session = q.session /\ r.run_type = q.run_type /\ r.block = q.block

\* One record per session, phase and block, and none before the worker is
\* done with the block.
RecordInv ==
    /\ \A i, j \in DOMAIN File :
          File[i] # Header /\ File[j] # Header /\ Same(File[i], File[j]) => i = j
    /\ \A i \in DOMAIN File :
          File[i] # Header => ~Skips(asked[File[i].session], File[i].block)
    /\ pc # "idle" =>
          \A i \in DOMAIN File : File[i] # Header /\ File[i].session = session =>
              /\ pc \notin {"opening", "opened"}
              /\ File[i].run_type = "aot" => pc = "aot"
              /\ File[i].run_type = pc => job[File[i].block] \in {"written", "failed"}

\* The file after a record: what was there, perhaps the column names, and the
\* record at the end.
LEMMA WriteFile ==
    ASSUME RangeInv, NEW b \in Block, WriteMeasurement(b)
    PROVE  /\ DOMAIN File' = 1 .. Len(File') /\ Len(File') \in Nat
           /\ Len(File') \notin DOMAIN File /\ Len(File') \in DOMAIN File'
           /\ File'[Len(File')] = Measurement(b)
           /\ \A i \in DOMAIN File : i \in DOMAIN File' /\ File'[i] = File[i]
           /\ \A i \in DOMAIN File' :
                 i \in DOMAIN File \/ i = Len(File') \/ File'[i] = Header
<1>1. /\ data \in Seq(Line) /\ buffer \in Seq(Line) /\ File \in Seq(Line)
      /\ Len(File) \in Nat /\ DOMAIN File = 1 .. Len(File)
    BY FileFacts, LenProperties
<1>2. job[b] = "measured"
    BY DEF WriteMeasurement
<1>3. PICK lines : lines = Lines(b)
    OBVIOUS
<1>4. /\ lines \in Seq(Line) /\ Len(lines) > 0 /\ Len(lines) \in Nat
      /\ lines[Len(lines)] = Measurement(b)
    BY <1>2, <1>3, LinesFit, LenProperties
<1>5. \A k \in 1 .. Len(lines) : k = Len(lines) \/ lines[k] = Header
    <2>1. CASE header
        <3>1. lines = <<Header, Measurement(b)>>
            BY <1>3, <2>1 DEF Lines
        <3>2. Len(lines) = 2 /\ lines[1] = Header
            BY <3>1
        <3> QED BY <3>2
    <2>2. CASE ~header
        <3>1. lines = <<Measurement(b)>>
            BY <1>3, <2>2 DEF Lines
        <3>2. Len(lines) = 1
            BY <3>1
        <3> QED BY <3>2
    <2> QED BY <2>1, <2>2
<1>6. File' = File \o lines
    <2>1. CASE data' = data \o buffer \o Lines(b) /\ buffer' = <<>>
        <3>1. data' = File \o lines /\ data' \in Seq(Line)
            BY <1>1, <1>3, <1>4, <2>1, ConcatProperties DEF File
        <3> QED BY <2>1, <3>1, ConcatEmptySeq DEF File
    <2>2. CASE data' = data /\ buffer' = buffer \o Lines(b)
        <3>1. File' = data \o (buffer \o lines)
            BY <1>3, <2>2, Zenon DEF File
        <3>2. data \in Seq(Line) /\ buffer \in Seq(Line) /\ lines \in Seq(Line)
            BY <1>1, <1>4
        <3>3. data \o (buffer \o lines) = (data \o buffer) \o lines
            BY ONLY <3>2, ConcatAssociative
        <3> QED BY <3>1, <3>3, Zenon DEF File
    <2> QED BY <2>1, <2>2 DEF WriteMeasurement
<1>7. /\ File \o lines \in Seq(Line) /\ Len(File \o lines) = Len(File) + Len(lines)
      /\ DOMAIN (File \o lines) = 1 .. Len(File \o lines)
      /\ \A i \in 1 .. Len(File) + Len(lines) :
            (File \o lines)[i] = IF i <= Len(File) THEN File[i] ELSE lines[i - Len(File)]
    BY <1>1, <1>4, ConcatProperties, LenProperties
<1>8. PICK all : all = File \o lines
    OBVIOUS
<1>9. ASSUME NEW i \in 1 .. Len(File) + Len(lines), i > Len(File)
      PROVE  i = Len(File) + Len(lines) \/ all[i] = Header
    <2>1. i - Len(File) \in 1 .. Len(lines) /\ all[i] = lines[i - Len(File)]
        BY <1>1, <1>4, <1>7, <1>8, <1>9
    <2>2. PICK k \in 1 .. Len(lines) : k = i - Len(File)
        BY <2>1
    <2>3. CASE k = Len(lines)
        <3>1. Len(lines) = i - Len(File)
            BY <2>2, <2>3
        <3>2. Len(File) \in Nat /\ Len(lines) \in Nat /\ i \in Nat
            BY <1>1, <1>4
        <3> QED BY ONLY <3>1, <3>2
    <2>4. CASE lines[k] = Header
        BY <2>1, <2>2, <2>4
    <2> QED BY <1>5, <2>3, <2>4
<1>10. all[Len(File) + Len(lines)] = Measurement(b)
    <2>1. Len(File) + Len(lines) \in 1 .. Len(File) + Len(lines)
        BY <1>1, <1>4
    <2>2. Len(File) + Len(lines) - Len(File) = Len(lines)
        BY <1>1, <1>4
    <2>3. all[Len(File) + Len(lines)] = lines[Len(lines)]
        BY <1>1, <1>4, <1>7, <1>8, <2>1, <2>2
    <2> QED BY <1>4, <2>3
<1>11. \A i \in 1 .. Len(File) : i \in 1 .. Len(File) + Len(lines) /\ all[i] = File[i]
    BY <1>1, <1>4, <1>7, <1>8
<1>12. /\ DOMAIN all = 1 .. Len(all) /\ Len(all) = Len(File) + Len(lines)
       /\ Len(all) \in Nat /\ Len(all) \notin 1 .. Len(File) /\ Len(all) \in 1 .. Len(all)
    BY <1>1, <1>4, <1>7, <1>8
<1>13. \A i \in 1 .. Len(all) : i \in 1 .. Len(File) \/ i = Len(all) \/ all[i] = Header
    BY <1>1, <1>4, <1>9, <1>12
<1> QED BY <1>1, <1>6, <1>8, <1>10, <1>11, <1>12, <1>13

\* A file that says no more than before keeps the invariant's first two parts.
LEMMA RecordsKept ==
    ASSUME RangeInv, RecordInv, DOMAIN File' \subseteq DOMAIN File,
           \A i \in DOMAIN File' : File'[i] = File[i],
           \A s \in 1 .. session : asked'[s] = asked[s]
    PROVE  /\ \A i, j \in DOMAIN File' :
                 File'[i] # Header /\ File'[j] # Header /\ Same(File'[i], File'[j]) => i = j
           /\ \A i \in DOMAIN File' :
                 File'[i] # Header => ~Skips(asked'[File'[i].session], File'[i].block)
<1>1. \A i \in DOMAIN File : File[i] # Header => File[i].session \in 1 .. session
    BY FileFacts
<1> QED BY <1>1 DEF RecordInv, Same, Skips

LEMMA RecordStart ==
    ASSUME RangeInv, RecordInv, NEW a \in Arguments, Start(a)
    PROVE  RecordInv'
<1>1. /\ session \in Nat /\ session' = session + 1
      /\ \A s \in 1 .. session : asked'[s] = asked[s]
    BY AppendProperties, LenProperties DEF RangeInv, TypeOK, Start, session
<1>2. File' = File
    BY DEF Start, fileVars, File
<1>3. \A i \in DOMAIN File : File[i] # Header => File[i].session # session'
    BY FileFacts, <1>1
<1>4. /\ \A i, j \in DOMAIN File' :
            File'[i] # Header /\ File'[j] # Header /\ Same(File'[i], File'[j]) => i = j
      /\ \A i \in DOMAIN File' :
            File'[i] # Header => ~Skips(asked'[File'[i].session], File'[i].block)
    BY <1>1, <1>2, RecordsKept
<1> QED BY <1>2, <1>3, <1>4 DEF RecordInv

LEMMA RecordQuiet ==
    ASSUME RangeInv, RecordInv, Quiet
    PROVE  RecordInv'
<1>1. File' = File /\ session' = session /\ asked' = asked
    BY DEF Quiet, File, session
<1>2. /\ \A i, j \in DOMAIN File' :
            File'[i] # Header /\ File'[j] # Header /\ Same(File'[i], File'[j]) => i = j
      /\ \A i \in DOMAIN File' :
            File'[i] # Header => ~Skips(asked'[File'[i].session], File'[i].block)
    BY <1>1, RecordsKept
<1>3. ASSUME NEW i \in DOMAIN File, File[i] # Header, File[i].session = session
      PROVE  /\ pc' \notin {"opening", "opened"}
             /\ File[i].run_type = "aot" => pc' = "aot"
             /\ File[i].run_type = pc' => job'[File[i].block] \in {"written", "failed"}
    <2>1. File[i] \in Record
        BY <1>3, FileFacts DEF Line
    <2>2. File[i].run_type \in {"native", "aot"} /\ File[i].block \in Block
        BY <2>1 DEF Record
    <2>3. /\ pc \notin {"opening", "opened"}
          /\ File[i].run_type = "aot" => pc = "aot"
          /\ File[i].run_type = pc => job[File[i].block] \in {"written", "failed"}
        BY <1>3 DEF Quiet, RecordInv
    <2> QED BY <2>2, <2>3 DEF Quiet
<1> QED BY <1>1, <1>2, <1>3 DEF RecordInv

LEMMA RecordEnds ==
    ASSUME RangeInv, RecordInv, Ends
    PROVE  RecordInv'
<1>1. File' = data' /\ (data' = data \/ data' = File)
    <2>1. data' \in Seq(Line)
        BY FileFacts DEF Ends
    <2> QED BY <2>1, ConcatEmptySeq DEF File, Idle, Ends
<1>2. DOMAIN File' \subseteq DOMAIN File /\ \A i \in DOMAIN File' : File'[i] = File[i]
    BY <1>1, FileFacts
<1>3. asked' = asked /\ pc' = "idle"
    BY DEF Ends, Idle
<1>4. /\ \A i, j \in DOMAIN File' :
            File'[i] # Header /\ File'[j] # Header /\ Same(File'[i], File'[j]) => i = j
      /\ \A i \in DOMAIN File' :
            File'[i] # Header => ~Skips(asked'[File'[i].session], File'[i].block)
    BY <1>2, <1>3, RecordsKept
<1> QED BY <1>3, <1>4 DEF RecordInv

LEMMA RecordWrite ==
    ASSUME RangeInv, RecordInv, NEW b \in Block, WriteMeasurement(b)
    PROVE  RecordInv'
<1> DEFINE last == Len(File')
<1>1. /\ last \notin DOMAIN File /\ last \in DOMAIN File' /\ File'[last] = Measurement(b)
      /\ \A i \in DOMAIN File : i \in DOMAIN File' /\ File'[i] = File[i]
      /\ \A i \in DOMAIN File' : i \in DOMAIN File \/ i = last \/ File'[i] = Header
    BY WriteFile
<1> HIDE DEF last
<1>2. /\ job[b] = "measured" /\ job'[b] \in {"written", "failed"}
      /\ \A x \in Block \ {b} : job'[x] = job[x]
      /\ pc' = pc /\ asked' = asked /\ session' = session
    BY DEF WriteMeasurement, SetJob, blockFrame, session, RangeInv, TypeOK
<1>3. pc \in {"native", "aot"}
    BY <1>2 DEF RangeInv, Shape
<1>4. PICK m : m = Measurement(b)
    OBVIOUS
<1>5. m.session = session /\ m.run_type = pc /\ m.block = b
    BY <1>4 DEF Measurement
<1>6. \A i \in DOMAIN File : File[i] # Header => ~Same(File[i], m)
    BY <1>2, <1>3, <1>5 DEF RecordInv, Same
<1>7. \A i \in DOMAIN File : File[i] # Header => ~Same(m, File[i])
    BY <1>6 DEF Same
<1>8. ASSUME NEW i \in DOMAIN File', NEW j \in DOMAIN File',
             File'[i] # Header, File'[j] # Header, Same(File'[i], File'[j])
      PROVE  i = j
    <2>1. CASE i \in DOMAIN File /\ j \in DOMAIN File
        BY <1>1, <1>8, <2>1 DEF RecordInv
    <2>2. CASE i \in DOMAIN File /\ j = last
        BY <1>1, <1>4, <1>6, <1>8, <2>2
    <2>3. CASE i = last /\ j \in DOMAIN File
        BY <1>1, <1>4, <1>7, <1>8, <2>3
    <2> QED BY <1>1, <1>8, <2>1, <2>2, <2>3
<1>9. ~Skips(args, b)
    BY <1>2 DEF RangeInv, JobInv, NothingToPick, Skips
<1>10. ASSUME NEW i \in DOMAIN File', File'[i] # Header
       PROVE  ~Skips(asked'[File'[i].session], File'[i].block)
    <2>1. CASE i \in DOMAIN File
        BY <1>1, <1>2, <1>10, <2>1 DEF RecordInv
    <2>2. CASE i = last
        BY <1>1, <1>2, <1>4, <1>5, <1>9, <2>2 DEF args
    <2> QED BY <1>1, <1>10, <2>1, <2>2
<1>11. ASSUME NEW i \in DOMAIN File', File'[i] # Header, File'[i].session = session
       PROVE  /\ pc \notin {"opening", "opened"}
              /\ File'[i].run_type = "aot" => pc = "aot"
              /\ File'[i].run_type = pc => job'[File'[i].block] \in {"written", "failed"}
    <2>1. CASE i \in DOMAIN File
        <3>1. /\ File'[i] = File[i] /\ File[i] # Header /\ File[i].session = session
            BY <1>1, <1>11, <2>1
        <3>2. File[i] \in Record
            BY <2>1, <3>1, FileFacts DEF Line
        <3>3. File[i].block \in Block
            BY <3>2 DEF Record
        <3>4. /\ File[i].run_type = "aot" => pc = "aot"
              /\ File[i].run_type = pc => job[File[i].block] \in {"written", "failed"}
            BY <1>3, <2>1, <3>1 DEF RecordInv
        <3> QED BY <1>2, <1>3, <3>1, <3>3, <3>4
    <2>2. CASE i = last
        BY <1>1, <1>2, <1>3, <1>4, <1>5, <2>2
    <2> QED BY <1>1, <1>11, <2>1, <2>2
<1> QED BY <1>2, <1>8, <1>10, <1>11 DEF RecordInv

LEMMA RecordAlways == Spec => []RecordInv
<1>1. Init => RecordInv
    <2> SUFFICES ASSUME Init PROVE RecordInv
        OBVIOUS
    <2>1. RangeInv
        BY RangeInit
    <2>2. Len(File) = Len(data) + Len(buffer) /\ DOMAIN File = 1 .. Len(File)
        BY <2>1, FileFacts
    <2>3. Len(data) = 0 /\ Len(buffer) = 0
        BY DEF Init
    <2>4. DOMAIN File = {}
        BY <2>2, <2>3
    <2> QED BY <2>4 DEF RecordInv, Init
<1>2. RangeInv /\ RecordInv /\ [Next]_vars => RecordInv'
    <2> SUFFICES ASSUME RangeInv, RecordInv, [Next]_vars PROVE RecordInv'
        OBVIOUS
    <2>1. CASE UNCHANGED vars
        BY <2>1 DEF vars, fileVars, RecordInv, File, session, Same, Skips
    <2> QED BY <2>1, StepKinds, RecordStart, RecordQuiet, RecordEnds, RecordWrite
<1> QED BY RangeAlways, <1>1, <1>2, PTL DEF Spec

-----------------------------------------------------------------------------
(* A session that returns Ok.                                              *)

IsRecord(line, s, run_type, b) ==
    line # Header /\ line.session = s /\ line.run_type = run_type /\ line.block = b

\* When the compiled phase is over and nothing went wrong, every block that
\* has a transaction to pick has its records.
LEMMA PhaseDone ==
    ASSUME RangeInv, pc = "aot", Wrong = {}, PhaseOver,
           NEW b \in block_iter, NEW run_type \in {"native", "aot"}, ~NothingToPick(b)
    PROVE  \E i \in DOMAIN data : IsRecord(data[i], session, run_type, b)
<1>1. b \in Block /\ job[b] # "waiting" /\ b \notin Active /\ b \notin Wrong
    BY DEF RangeInv, TypeOK, PhaseOver
<1>2. job[b] = "written"
    BY <1>1 DEF RangeInv, TypeOK, JobInv, Active, Wrong
<1>3. CASE run_type = "native"
    <2>1. NativeDone(b)
        BY DEF RangeInv, PairInv
    <2> QED BY <1>3, <2>1 DEF NativeDone, IsRecord
<1>4. CASE run_type = "aot"
    <2>1. PICK i \in DOMAIN data : data[i] = Measurement(b)
        BY <1>1, <1>2 DEF RangeInv, JobInv
    <2>2. Measurement(b) \in Record
        BY <1>1, LenProperties DEF RangeInv, TypeOK, Measurement, Record, session
    <2>3. Measurement(b) # Header
        BY <2>2, BlockRangeAssumption DEF Record
    <2> QED BY <1>4, <2>1, <2>3 DEF IsRecord, Measurement
<1> QED BY <1>3, <1>4

\* Only the end of the compiled phase returns Ok.
LEMMA ReturnsOnlyHere ==
    ASSUME RangeInv, [Next]_vars, returned' # returned
    PROVE  /\ Ends /\ pc = "aot" /\ Wrong = {} /\ PhaseOver
           /\ returned' = returned \cup {session}
<1>1. \/ \E a \in Arguments : Start(a)
      \/ Quiet \/ Ends
      \/ \E b \in Block : WriteMeasurement(b)
    BY StepKinds DEF vars
<1>2. Ends
    BY <1>1 DEF Start, Quiet, WriteMeasurement, blockFrame
<1> QED BY <1>2 DEF Ends

\* What the session leaves in data.csv, line by line.
LEMMA EndsFile ==
    ASSUME RangeInv, Ends
    PROVE  /\ File' = data' /\ asked' = asked /\ session' = session
           /\ \A i \in DOMAIN data : i \in DOMAIN data' /\ data'[i] = data[i]
<1>1. data' \in Seq(Line) /\ (data' = data \/ data' = File)
    BY FileFacts DEF Ends
<1>2. File' = data'
    BY <1>1, ConcatEmptySeq DEF File, Idle, Ends
<1> QED BY <1>1, <1>2, FileFacts DEF Ends, session

LEMMA CompleteStep ==
    ASSUME RangeInv, RecordInv, RecordInv', [Next]_vars, returned' # returned,
           NEW b \in block_iter, NEW run_type \in {"native", "aot"}
    PROVE  Cardinality(Records(data', session, run_type, b)) =
               IF args.run_rnd_txs /\ TxCount[b] = 0 THEN 0 ELSE 1
<1> DEFINE found == Records(data', session, run_type, b)
<1>1. Ends /\ pc = "aot" /\ Wrong = {} /\ PhaseOver
    BY ReturnsOnlyHere
<1>2. /\ File' = data' /\ asked' = asked /\ session' = session
      /\ \A i \in DOMAIN data : i \in DOMAIN data' /\ data'[i] = data[i]
    BY <1>1, EndsFile
<1>3. found = {i \in DOMAIN data' : IsRecord(data'[i], session, run_type, b)}
    BY DEF Records, IsRecord
<1>4. CASE NothingToPick(b)
    <2>1. found = {}
        BY <1>2, <1>3, <1>4 DEF RecordInv, Skips, NothingToPick, IsRecord, args
    <2> QED BY <1>4, <2>1, FS_EmptySet DEF NothingToPick
<1>5. CASE ~NothingToPick(b)
    <2>1. PICK i \in DOMAIN data : IsRecord(data[i], session, run_type, b)
        BY <1>1, <1>5, PhaseDone
    <2>2. i \in found
        BY <1>2, <1>3, <2>1
    <2>3. \A j \in found : j = i
        BY <1>2, <1>3, <2>2 DEF RecordInv, Same, IsRecord
    <2>4. found = {i}
        BY <2>2, <2>3
    <2> QED BY <1>5, <2>4, FS_Singleton DEF NothingToPick
<1> QED BY <1>4, <1>5

\* Whatever faults other sessions met, one that returns Ok has exactly one
\* record per block and phase, and none of a block without transactions to
\* pick.
THEOREM CompleteIsComplete == Spec => CompleteWhenDone
<1> DEFINE Complete ==
        \A b \in block_iter, run_type \in {"native", "aot"} :
            Cardinality(Records(data', session, run_type, b)) =
                IF args.run_rnd_txs /\ TxCount[b] = 0 THEN 0 ELSE 1
<1>1. /\ RangeInv /\ RecordInv /\ RecordInv' /\ [Next]_vars
      => [returned' # returned => Complete]_vars
    BY CompleteStep
<1> QED BY RangeAlways, RecordAlways, <1>1, PTL DEF Spec, CompleteWhenDone

-----------------------------------------------------------------------------
(* Sessions with a seed.                                                   *)

\* What the seed makes of a session's arguments.
BlocksOf(a) ==
    LET range == a.start .. a.end - 1
    IN  IF a.sample = NoSample THEN range ELSE Taken(range \ a.blacklist, a.sample, seed)
PickOf(a, b) == IF a.run_rnd_txs THEN seed[1 .. TxsLen(a, b)][1] ELSE 0

\* Nothing that a session with a seed does, or did, depends on anything else.
SeedInv ==
    /\ pc # "idle" /\ args.seeded => block_iter = BlocksOf(args)
    /\ \A i \in DOMAIN File :
          File[i] # Header /\ asked[File[i].session].seeded =>
              /\ File[i].block \in BlocksOf(asked[File[i].session])
              /\ File[i].tx = PickOf(asked[File[i].session], File[i].block)
    /\ \A s \in returned : asked[s].seeded =>
          \A b \in BlocksOf(asked[s]), run_type \in {"native", "aot"} :
              \/ Skips(asked[s], b)
              \/ \E i \in DOMAIN data : IsRecord(data[i], s, run_type, b)

LEMMA SeedStart ==
    ASSUME RangeInv, SeedInv, NEW a \in Arguments, Start(a)
    PROVE  SeedInv'
<1>1. /\ asked' = Append(asked, a) /\ asked \in Seq(Arguments)
      /\ block_iter' \in BlockIters(a) /\ seed' = seed
      /\ File' = File /\ data' = data /\ returned' = returned
    BY DEF Start, RangeInv, TypeOK, fileVars, File
<1>2. args' = a /\ session \in Nat /\ \A s \in 1 .. session : asked'[s] = asked[s]
    BY <1>1, AppendProperties, LenProperties DEF args, session
<1>3. /\ \A i \in DOMAIN File : File[i] # Header => File[i].session \in 1 .. session
      /\ returned \subseteq 1 .. session
    BY FileFacts DEF RangeInv, TypeOK
<1>4. a.seeded => block_iter' = BlocksOf(a)
    BY <1>1 DEF BlockIters, BlocksOf, Drawn, Dice
<1>5. \A x : BlocksOf(x)' = BlocksOf(x) /\ \A b : PickOf(x, b)' = PickOf(x, b)
    BY <1>1 DEF BlocksOf, PickOf, Taken
<1> QED BY <1>1, <1>2, <1>3, <1>4, <1>5 DEF SeedInv

LEMMA SeedSame ==
    ASSUME SeedInv,
           UNCHANGED <<seed, asked, block_iter, data, buffer, returned>>,
           pc' = "idle" \/ pc # "idle" \/ pc' = pc
    PROVE  SeedInv'
<1>1. File' = File /\ args' = args
    BY DEF File, args, session
<1>2. \A x : BlocksOf(x)' = BlocksOf(x) /\ \A b : PickOf(x, b)' = PickOf(x, b)
    BY DEF BlocksOf, PickOf, Taken
<1> QED BY <1>1, <1>2 DEF SeedInv

LEMMA SeedEnds ==
    ASSUME RangeInv, SeedInv, Ends
    PROVE  SeedInv'
<1>1. /\ File' = data' /\ asked' = asked /\ session' = session
      /\ \A i \in DOMAIN data : i \in DOMAIN data' /\ data'[i] = data[i]
    BY EndsFile
<1>2. \A i \in DOMAIN data' : i \in DOMAIN File /\ data'[i] = File[i]
    BY FileFacts DEF Ends
<1>3. seed' = seed /\ pc' = "idle"
    BY DEF Ends, Idle
<1>4. \A x : BlocksOf(x)' = BlocksOf(x) /\ \A b : PickOf(x, b)' = PickOf(x, b)
    BY <1>3 DEF BlocksOf, PickOf, Taken
<1>5. \A i \in DOMAIN File' :
          File'[i] # Header /\ asked[File'[i].session].seeded =>
              /\ File'[i].block \in BlocksOf(asked[File'[i].session])
              /\ File'[i].tx = PickOf(asked[File'[i].session], File'[i].block)
    BY <1>1, <1>2 DEF SeedInv
<1>6. ASSUME NEW s \in returned', asked[s].seeded,
             NEW b \in BlocksOf(asked[s]), NEW run_type \in {"native", "aot"},
             ~Skips(asked[s], b)
      PROVE  \E i \in DOMAIN data : IsRecord(data[i], s, run_type, b)
    <2>1. CASE s \in returned
        BY <1>6, <2>1 DEF SeedInv
    <2>2. CASE s \notin returned
        <3>1. s = session /\ pc = "aot" /\ Wrong = {} /\ PhaseOver
            BY <2>2 DEF Ends
        <3>2. b \in block_iter /\ ~NothingToPick(b)
            BY <1>6, <3>1 DEF SeedInv, args, Skips, NothingToPick
        <3> QED BY <3>1, <3>2, PhaseDone
    <2> QED BY <2>1, <2>2
<1>7. ASSUME NEW s \in returned', asked[s].seeded,
             NEW b \in BlocksOf(asked[s]), NEW run_type \in {"native", "aot"}
      PROVE  \/ Skips(asked[s], b)
             \/ \E i \in DOMAIN data' : IsRecord(data'[i], s, run_type, b)
    BY <1>1, <1>6, <1>7
<1> QED BY <1>1, <1>3, <1>4, <1>5, <1>7 DEF SeedInv

LEMMA SeedWrite ==
    ASSUME RangeInv, SeedInv, NEW b \in Block, WriteMeasurement(b)
    PROVE  SeedInv'
<1> DEFINE last == Len(File')
<1>1. /\ File'[last] = Measurement(b)
      /\ \A i \in DOMAIN File : i \in DOMAIN File' /\ File'[i] = File[i]
      /\ \A i \in DOMAIN File' : i \in DOMAIN File \/ i = last \/ File'[i] = Header
    BY WriteFile
<1> HIDE DEF last
<1>2. /\ job[b] = "measured" /\ seed' = seed /\ pc' = pc /\ returned' = returned
      /\ asked' = asked /\ args' = args /\ block_iter' = block_iter
    BY DEF WriteMeasurement, blockFrame, args, session
<1>3. b \in block_iter /\ pc \in {"native", "aot"}
    BY <1>2 DEF RangeInv, Shape
<1>4. PICK m : m = Measurement(b)
    OBVIOUS
<1>5. m.session = session /\ m.block = b /\ m.tx = tx[b]
    BY <1>4 DEF Measurement
<1>6. \A x : BlocksOf(x)' = BlocksOf(x) /\ \A y : PickOf(x, y)' = PickOf(x, y)
    BY <1>2 DEF BlocksOf, PickOf, Taken
<1>7. args.seeded => b \in BlocksOf(args) /\ tx[b] = PickOf(args, b)
    BY <1>2, <1>3 DEF SeedInv, RangeInv, JobInv, Pick, PickOf
<1>8. ASSUME NEW i \in DOMAIN File', File'[i] # Header,
             asked[File'[i].session].seeded
      PROVE  /\ File'[i].block \in BlocksOf(asked[File'[i].session])
             /\ File'[i].tx = PickOf(asked[File'[i].session], File'[i].block)
    <2>1. CASE i \in DOMAIN File
        BY <1>1, <1>8, <2>1 DEF SeedInv
    <2>2. CASE i = last
        BY <1>1, <1>4, <1>5, <1>7, <1>8, <2>2 DEF args
    <2> QED BY <1>1, <1>8, <2>1, <2>2
<1>9. \A i \in DOMAIN data : i \in DOMAIN data' /\ data'[i] = data[i]
    BY WriteInv
<1>10. ASSUME NEW s \in returned, asked[s].seeded,
              NEW x \in BlocksOf(asked[s]), NEW run_type \in {"native", "aot"}
       PROVE  \/ Skips(asked[s], x)
              \/ \E i \in DOMAIN data' : IsRecord(data'[i], s, run_type, x)
    BY <1>9, <1>10 DEF SeedInv
<1> QED BY <1>2, <1>6, <1>8, <1>10 DEF SeedInv

LEMMA SeedAlways == Spec => []SeedInv
<1>1. Init => SeedInv
    <2> SUFFICES ASSUME Init PROVE SeedInv
        OBVIOUS
    <2>1. RangeInv
        BY RangeInit
    <2>2. Len(File) = Len(data) + Len(buffer) /\ DOMAIN File = 1 .. Len(File)
        BY <2>1, FileFacts
    <2>3. Len(data) = 0 /\ Len(buffer) = 0
        BY DEF Init
    <2>4. DOMAIN File = {}
        BY <2>2, <2>3
    <2> QED BY <2>4 DEF SeedInv, Init
<1>2. RangeInv /\ SeedInv /\ [Next]_vars => SeedInv'
    <2> SUFFICES ASSUME RangeInv, SeedInv, [Next]_vars PROVE SeedInv'
        OBVIOUS
    <2>1. CASE UNCHANGED vars
        BY <2>1, SeedSame DEF vars, fileVars
    <2>2. CASE Quiet
        <3>1. pc # "idle"
            BY <2>2 DEF Quiet
        <3> QED BY <2>2, <3>1, SeedSame DEF Quiet
    <2> QED BY <2>1, <2>2, StepKinds, SeedStart, SeedEnds, SeedWrite
<1> QED BY RangeAlways, <1>1, <1>2, PTL DEF Spec

\* Two sessions that were asked for the same, with a seed, and returned Ok
\* measured the same blocks and transactions, however the workers took turns.
THEOREM SeedsReproduce == Spec => []Reproducible
<1>1. RangeInv /\ RecordInv /\ SeedInv => Reproducible
    <2> SUFFICES ASSUME RangeInv, RecordInv, SeedInv PROVE Reproducible
        OBVIOUS
    <2> DEFINE OwnLines(s) == {i \in DOMAIN data : data[i] # Header /\ data[i].session = s}
               Measured(s) == {<<data[i].run_type, data[i].block, data[i].tx>> : i \in OwnLines(s)}
    <2>1. ASSUME NEW s \in returned, NEW t \in returned, asked[s] = asked[t], asked[s].seeded,
                 NEW i \in OwnLines(s)
          PROVE  \E j \in OwnLines(t) :
                     <<data[j].run_type, data[j].block, data[j].tx>>
                       = <<data[i].run_type, data[i].block, data[i].tx>>
        <3>1. /\ i \in DOMAIN File /\ File[i] = data[i] /\ data[i] \in Record
              /\ data[i].session = s /\ data[i] # Header
            BY FileFacts DEF Line
        <3>2. /\ data[i].block \in BlocksOf(asked[s])
              /\ data[i].tx = PickOf(asked[s], data[i].block)
            BY <2>1, <3>1 DEF SeedInv
        <3>3. data[i].run_type \in {"native", "aot"} /\ ~Skips(asked[s], data[i].block)
            BY <3>1 DEF RecordInv, Record
        <3>4. PICK j \in DOMAIN data : IsRecord(data[j], t, data[i].run_type, data[i].block)
            BY <2>1, <3>2, <3>3 DEF SeedInv
        <3>5. j \in DOMAIN File /\ File[j] = data[j]
            BY FileFacts
        <3>6. data[j].tx = PickOf(asked[s], data[i].block)
            BY <2>1, <3>4, <3>5 DEF SeedInv, IsRecord
        <3> QED BY <3>2, <3>4, <3>6 DEF IsRecord
    <2>2. ASSUME NEW s \in returned, NEW t \in returned, asked[s] = asked[t], asked[s].seeded
          PROVE  Measured(s) = Measured(t)
        <3>1. Measured(s) \subseteq Measured(t)
            BY <2>1, <2>2
        <3>2. Measured(t) \subseteq Measured(s)
            BY <2>1, <2>2
        <3> QED BY <3>1, <3>2
    <2> QED BY <2>2 DEF Reproducible
<1> QED BY RangeAlways, RecordAlways, SeedAlways, <1>1, PTL

-----------------------------------------------------------------------------
(* data.csv as a log.                                                      *)

\* Lines that are not in the file yet are of the phase that is going on, and
\* of blocks that failed.
PendingInv ==
    \A i \in DOMAIN File : i \notin DOMAIN data /\ File[i] # Header =>
        File[i].session = session /\ File[i].run_type = pc /\ job[File[i].block] = "failed"

LEMMA PendingEmpty ==
    ASSUME RangeInv', buffer' = <<>>
    PROVE  PendingInv'
<1>1. File' = data'
    BY ConcatEmptySeq DEF RangeInv, TypeOK, File
<1> QED BY <1>1 DEF PendingInv

LEMMA PendingQuiet ==
    ASSUME RangeInv, RangeInv', PendingInv, Quiet
    PROVE  PendingInv'
<1>1. File' = File /\ data' = data /\ session' = session
    BY DEF Quiet, File, session
<1>2. ASSUME NEW i \in DOMAIN File, i \notin DOMAIN data, File[i] # Header
      PROVE  /\ File[i].session = session /\ File[i].run_type = pc'
             /\ job'[File[i].block] = "failed"
    <2>1. File[i].session = session /\ File[i].run_type = pc /\ job[File[i].block] = "failed"
        BY <1>2 DEF PendingInv
    <2>2. File[i].block \in Block /\ pc \in {"native", "aot"}
        BY <1>2, <2>1, FileFacts DEF Line, Record
    <2>3. pc' = pc /\ job'[File[i].block] = job[File[i].block]
        <3>1. Wrong # {}
            BY <2>1, <2>2 DEF RangeInv, Shape, Wrong
        <3> QED BY <2>1, <2>2, <3>1 DEF Quiet
    <2> QED BY <2>1, <2>3
<1> QED BY <1>1, <1>2 DEF PendingInv

LEMMA PendingWrite ==
    ASSUME RangeInv, RangeInv', PendingInv, NEW b \in Block, WriteMeasurement(b)
    PROVE  PendingInv'
<1> DEFINE last == Len(File')
<1>1. /\ last \notin DOMAIN File /\ File'[last] = Measurement(b)
      /\ \A i \in DOMAIN File : i \in DOMAIN File' /\ File'[i] = File[i]
      /\ \A i \in DOMAIN File' : i \in DOMAIN File \/ i = last \/ File'[i] = Header
    BY WriteFile
<1> HIDE DEF last
<1>2. CASE buffer' = <<>>
    BY <1>2, PendingEmpty
<1>3. CASE buffer' # <<>>
    <2>1. data' = data /\ job' = [job EXCEPT ![b] = "failed"] /\ pc' = pc /\ session' = session
        BY <1>3 DEF WriteMeasurement, SetJob, blockFrame, session
    <2>2. job \in [Block -> {"waiting", "sim", "measured", "written", "skipped", "failed", "panicked"}]
        BY DEF RangeInv, TypeOK
    <2>3. ASSUME NEW i \in DOMAIN File', i \notin DOMAIN data, File'[i] # Header
          PROVE  /\ File'[i].session = session /\ File'[i].run_type = pc
                 /\ job'[File'[i].block] = "failed"
        <3>1. CASE i \in DOMAIN File
            <4>1. /\ File[i].session = session /\ File[i].run_type = pc
                  /\ job[File[i].block] = "failed" /\ File'[i] = File[i]
                BY <1>1, <2>3, <3>1 DEF PendingInv
            <4>2. File[i].block \in Block
                BY <2>3, <3>1, <4>1, FileFacts DEF Line, Record
            <4> QED BY <2>1, <2>2, <4>1, <4>2
        <3>2. CASE i = last
            <4>1. PICK m : m = Measurement(b)
                OBVIOUS
            <4>2. m.session = session /\ m.run_type = pc /\ m.block = b
                BY <4>1 DEF Measurement
            <4> QED BY <1>1, <2>1, <2>2, <3>2, <4>1, <4>2
        <3> QED BY <1>1, <2>3, <3>1, <3>2
    <2> QED BY <2>1, <2>3 DEF PendingInv
<1> QED BY <1>2, <1>3

LEMMA PendingAlways == Spec => []PendingInv
<1>1. Init => PendingInv
    <2> SUFFICES ASSUME Init PROVE PendingInv
        OBVIOUS
    <2>1. RangeInv
        BY RangeInit
    <2>2. Len(File) = Len(data) + Len(buffer) /\ DOMAIN File = 1 .. Len(File)
        BY <2>1, FileFacts
    <2>3. Len(data) = 0 /\ Len(buffer) = 0
        BY DEF Init
    <2>4. DOMAIN File = {}
        BY <2>2, <2>3
    <2> QED BY <2>4 DEF PendingInv
<1>2. RangeInv /\ RangeInv' /\ PendingInv /\ [Next]_vars => PendingInv'
    <2> SUFFICES ASSUME RangeInv, RangeInv', PendingInv, [Next]_vars PROVE PendingInv'
        OBVIOUS
    <2>1. CASE UNCHANGED vars
        BY <2>1 DEF vars, fileVars, PendingInv, File, session
    <2>2. ASSUME NEW a \in Arguments, Start(a) PROVE PendingInv'
        BY <2>2, PendingEmpty DEF RangeInv, Shape, Start, fileVars
    <2>3. CASE Ends
        BY <2>3, PendingEmpty DEF Ends, Idle
    <2> QED BY <2>1, <2>2, <2>3, StepKinds, PendingQuiet, PendingWrite
<1> QED BY RangeAlways, <1>1, <1>2, PTL DEF Spec

\* The blocks of the session that have something to measure.
Measurable == {b \in block_iter : ~(args.run_rnd_txs /\ TxCount[b] = 0)}

\* What pc is called in the log.
Phase(p) ==
    CASE p = "idle"                           -> "idle"
      [] p \in {"opening", "opened", "native"} -> "native"
      [] p \in {"compile", "aot"}              -> "aot"

LEMMA PhaseIs ==
    /\ Phase("idle") = "idle"
    /\ Phase("opening") = "native" /\ Phase("opened") = "native" /\ Phase("native") = "native"
    /\ Phase("compile") = "aot" /\ Phase("aot") = "aot"
BY DEF Phase

\* A line of a block in this phase, as the log has it.
LEMMA LineIs ==
    ASSUME NEW line, NEW b
    PROVE  Log!IsLine(line, b) <=> IsRecord(line, session, Phase(pc), b)
BY DEF Log!IsLine, IsRecord, Phase

\* What a step adds to the file is pending, just measured, or the column
\* names.
Added(i) ==
    \/ data'[i] = Header
    \/ i \in DOMAIN File /\ data'[i] = File[i]
    \/ \E b \in Block : job[b] = "measured" /\ data'[i] = Measurement(b)

\* Such a line is of this phase and of a block that has something to measure.
LEMMA AddedIsLine ==
    ASSUME RangeInv, RecordInv, PendingInv, NEW i, i \notin DOMAIN data, Added(i),
           data'[i] # Header
    PROVE  \E b \in Measurable : IsRecord(data'[i], session, Phase(pc), b)
<1>1. CASE i \in DOMAIN File /\ data'[i] = File[i]
    <2>1. /\ File[i].session = session /\ File[i].run_type = pc /\ job[File[i].block] = "failed"
          /\ ~Skips(asked[File[i].session], File[i].block) /\ File[i] # Header
        BY <1>1 DEF PendingInv, RecordInv
    <2>2. File[i].block \in Block /\ pc \in {"native", "aot"}
        BY <1>1, <2>1, FileFacts DEF Line, Record
    <2>3. File[i].block \in Measurable
        BY <2>1, <2>2 DEF RangeInv, Shape, Measurable, Skips, args
    <2> QED BY <1>1, <2>1, <2>2, <2>3, PhaseIs DEF IsRecord
<1>2. ASSUME NEW b \in Block, job[b] = "measured", data'[i] = Measurement(b)
      PROVE  \E x \in Measurable : IsRecord(data'[i], session, Phase(pc), x)
    <2>1. b \in block_iter /\ ~NothingToPick(b) /\ pc \in {"native", "aot"}
        BY <1>2 DEF RangeInv, Shape, JobInv
    <2>2. b \in Measurable
        BY <2>1 DEF Measurable, NothingToPick
    <2>3. Measurement(b).session = session /\ Measurement(b).run_type = pc /\ Measurement(b).block = b
        BY DEF Measurement
    <2> QED BY <1>2, <2>1, <2>2, <2>3, PhaseIs DEF IsRecord
<1> QED BY <1>1, <1>2 DEF Added

LEMMA LogExtends ==
    ASSUME RangeInv, RecordInv, PendingInv, RangeInv', RecordInv',
           \A i \in DOMAIN data : i \in DOMAIN data' /\ data'[i] = data[i],
           \A i \in DOMAIN data' : i \in DOMAIN data \/ Added(i)
    PROVE  Log!Extended
<1>1. /\ data' \in Seq(Line) /\ buffer' \in Seq(Line)
      /\ Len(data') \in Nat /\ Len(buffer') \in Nat /\ DOMAIN data' = 1 .. Len(data')
    BY LenProperties DEF RangeInv, TypeOK, Line
<1>2. \A i \in DOMAIN data' : i \in DOMAIN File' /\ File'[i] = data'[i]
    BY <1>1, ConcatProperties, LenProperties DEF File
<1>3. \A i \in DOMAIN data' : data'[i] = Header => i = 1
    BY <1>1 DEF RangeInv, HeadInv, Headed
<1>4. ASSUME NEW i \in DOMAIN data', i \notin DOMAIN data, data'[i] # Header
      PROVE  \E b \in Measurable : Log!IsLine(data'[i], b)
    <2>1. PICK b \in Measurable : IsRecord(data'[i], session, Phase(pc), b)
        BY <1>4, AddedIsLine
    <2> QED BY <2>1, LineIs
<1>5. ASSUME NEW i \in DOMAIN data', NEW j \in DOMAIN data', i # j,
             data'[i] # Header, data'[j] # Header
      PROVE  ~Log!SameCell(data'[j], data'[i])
    BY <1>2, <1>5 DEF Log!SameCell, Same, RecordInv
<1> QED BY <1>3, <1>4, <1>5 DEF Log!Extended, Measurable

LEMMA LogInit == Init => Log!Init
BY LenProperties DEF Init, Log!Init, session

LEMMA LogStart ==
    ASSUME RangeInv, RangeInv', NEW a \in Arguments, Start(a)
    PROVE  Log!Begin
<1>1. /\ session \in Nat /\ session' = session + 1 /\ pc = "idle" /\ pc' = "opening"
      /\ data' = data /\ returned' = returned
    BY AppendProperties, LenProperties DEF RangeInv, TypeOK, Start, session, fileVars
<1>2. Measurable' \in SUBSET Block
    BY DEF RangeInv, TypeOK, Measurable
<1> QED BY <1>1, <1>2 DEF Log!Begin, Measurable

\* The native phase is complete when the next one is prepared.
LEMMA LogGoesOn ==
    ASSUME RangeInv, RangeInv', Quiet
    PROVE  Log!GoOn \/ UNCHANGED Log!logVars
<1>1. /\ session' = session /\ args' = args /\ block_iter' = block_iter
      /\ data' = data /\ returned' = returned
    BY DEF Quiet, session, args
<1>2. Measurable' = Measurable
    BY <1>1 DEF Measurable
<1>3. CASE pc = "native" /\ pc' = "compile"
    <2>1. ASSUME NEW b \in Measurable
          PROVE  \E i \in DOMAIN data : Log!IsLine(data[i], b)
        <3>1. b \in block_iter' /\ ~NothingToPick(b)'
            BY <1>1 DEF Measurable, NothingToPick
        <3>2. NativeDone(b)'
            BY <1>3, <3>1 DEF RangeInv, PairInv
        <3>3. PICK i \in DOMAIN data : IsRecord(data[i], session, "native", b)
            BY <1>1, <3>2 DEF NativeDone, IsRecord
        <3> QED BY <1>3, <3>3, LineIs, PhaseIs
    <2>2. Log!PhaseComplete
        BY <2>1 DEF Log!PhaseComplete, Measurable
    <2> QED BY <1>1, <1>2, <1>3, <2>2 DEF Log!GoOn, Measurable
<1>4. CASE Phase(pc') = Phase(pc)
    BY <1>1, <1>2, <1>4 DEF Log!logVars, Measurable, Phase
<1>5. (pc = "native" /\ pc' = "compile") \/ Phase(pc') = Phase(pc)
    BY PhaseIs DEF Quiet
<1> QED BY <1>3, <1>4, <1>5

LEMMA LogWrites ==
    ASSUME RangeInv, RecordInv, PendingInv, RangeInv', RecordInv',
           NEW b \in Block, WriteMeasurement(b)
    PROVE  Log!Measure
<1>1. /\ job[b] = "measured" /\ pc' = pc /\ returned' = returned
      /\ session' = session /\ args' = args /\ block_iter' = block_iter
    BY DEF WriteMeasurement, blockFrame, session, args
<1>2. Measurable' = Measurable
    BY <1>1 DEF Measurable
<1>3. \A i \in DOMAIN data : i \in DOMAIN data' /\ data'[i] = data[i]
    BY WriteInv
<1>4. \A i \in DOMAIN data' : i \in DOMAIN data \/ Added(i)
    <2>1. CASE data' = data
        BY <2>1
    <2>2. CASE data' = data \o buffer \o Lines(b) /\ buffer' = <<>>
        <3>1. File' = data'
            BY <2>2, ConcatEmptySeq DEF RangeInv, TypeOK, File
        <3>2. /\ File'[Len(File')] = Measurement(b)
              /\ \A i \in DOMAIN File : File'[i] = File[i]
              /\ \A i \in DOMAIN File' :
                    i \in DOMAIN File \/ i = Len(File') \/ File'[i] = Header
            BY WriteFile
        <3> QED BY <1>1, <3>1, <3>2 DEF Added
    <2> QED BY <2>1, <2>2 DEF WriteMeasurement
<1>5. Log!Extended
    BY <1>3, <1>4, LogExtends
<1>6. pc \in {"native", "aot"}
    BY <1>1 DEF RangeInv, Shape
<1> QED BY <1>1, <1>2, <1>5, <1>6 DEF Log!Measure, Measurable

LEMMA LogEnds ==
    ASSUME RangeInv, RecordInv, PendingInv, RangeInv', RecordInv', Ends
    PROVE  Log!End
<1>1. /\ session' = session /\ block_iter' = {} /\ pc' = "idle" /\ pc # "idle"
      /\ \A i \in DOMAIN data : i \in DOMAIN data' /\ data'[i] = data[i]
    BY EndsFile DEF Ends, Idle
<1>2. \A i \in DOMAIN data' : i \in DOMAIN data \/ Added(i)
    BY DEF Ends, Added
<1>3. Log!Extended
    BY <1>1, <1>2, LogExtends
<1>4. Measurable' = {}
    BY <1>1 DEF Measurable
<1>5. ASSUME pc = "aot", Wrong = {}, PhaseOver
      PROVE  Log!PhaseComplete
    <2>1. ASSUME NEW b \in Measurable
          PROVE  \E i \in DOMAIN data : Log!IsLine(data[i], b)
        <3>1. b \in block_iter /\ ~NothingToPick(b)
            BY DEF Measurable, NothingToPick
        <3>2. PICK i \in DOMAIN data : IsRecord(data[i], session, "aot", b)
            BY <1>5, <3>1, PhaseDone
        <3> QED BY <1>5, <3>2, LineIs, PhaseIs
    <2> QED BY <2>1 DEF Log!PhaseComplete, Measurable
<1>6. pc \in {"opening", "opened", "native", "compile", "aot"}
    BY <1>1 DEF RangeInv, TypeOK
<1> QED BY <1>1, <1>3, <1>4, <1>5, <1>6 DEF Log!End, Measurable, Ends

LEMMA LogNext ==
    ASSUME RangeInv, RecordInv, PendingInv, RangeInv', RecordInv', [Next]_vars
    PROVE  [Log!Next]_(Log!logVars)
<1>1. CASE UNCHANGED vars
    BY <1>1 DEF vars, fileVars, Log!logVars, session, args
<1> QED
    BY <1>1, StepKinds, LogStart, LogGoesOn, LogWrites, LogEnds DEF Log!Next

\* Whatever workers, buffers, faults and crashes do, data.csv is a log that
\* only grows, session by session and phase by phase, with one line per block
\* and none missing when a session returned Ok.
THEOREM FileIsLog == Spec => ImplementsLog
BY LogInit, LogNext, RangeAlways, RecordAlways, PendingAlways, PTL
    DEF Spec, ImplementsLog, Log!Spec
=============================================================================
