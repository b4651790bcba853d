--------------------------- MODULE Credentials_proof ---------------------------
(***************************************************************************)
(* Proofs about Credentials, for every inherited environment, all lines    *)
(* and any number of versions of the file.                                 *)
(***************************************************************************)
EXTENDS Credentials, Integers, WellFoundedInduction, TLAPS

\* A set of slots has a first and, being bounded, a last one.
LEMMA LeastFirst ==
    ASSUME NEW S \in SUBSET Nat, S # {}
    PROVE  Least(S) \in S /\ \A i \in S : Least(S) <= i
<1>1. PICK x \in S : \A y \in S : ~(<<y, x>> \in OpToRel(<, Nat))
  BY WFMin, NatLessThanWellFounded
<1>2. ASSUME NEW y \in S, y < x PROVE FALSE
  <2>1. <<y, x>> \in Nat \X Nat
    OBVIOUS
  <2>2. <<y, x>> \in OpToRel(<, Nat)
    BY <1>2, <2>1 DEF OpToRel
  <2> QED
    BY <1>1, <2>2
<1>3. \A y \in S : x <= y
  BY <1>2
<1> QED
  BY <1>3 DEF Least

LEMMA GreatestIn ==
    ASSUME NEW n \in Nat, NEW S \in SUBSET (1 .. n), S # {}
    PROVE  \E i \in S : \A j \in S : j <= i
<1> DEFINE below == {n - i : i \in S}
<1>1. below \in SUBSET Nat /\ below # {}
  <2>1. \A i \in S : n - i \in Nat
    OBVIOUS
  <2>2. PICK i \in S : TRUE
    OBVIOUS
  <2>3. n - i \in below
    BY <2>2
  <2> QED
    BY <2>1, <2>3
<1>2. PICK x \in below : \A y \in below : ~(<<y, x>> \in OpToRel(<, Nat))
  BY <1>1, WFMin, NatLessThanWellFounded
<1>3. PICK i \in S : x = n - i
  BY <1>2
<1>4. ASSUME NEW j \in S, ~(j <= i) PROVE FALSE
  <2>1. n - j \in below /\ n - j < n - i
    BY <1>4
  <2>2. <<n - j, x>> \in Nat \X Nat
    BY <1>1, <2>1
  <2>3. <<n - j, x>> \in OpToRel(<, Nat)
    BY <1>3, <2>1, <2>2 DEF OpToRel
  <2> QED
    BY <1>2, <2>1, <2>3
<1> QED
  BY <1>4

--------------------------------------------------------------------------------
(* The values that the buffers, the environment and the URL can have *)

Names == Variables \cup {"", "OTHER"}
FromFile(ver) == {Value("file", ver, cut) : cut \in BOOLEAN}
FileText(ver) == {Text(name, v) : name \in Names, v \in {Nothing} \cup FromFile(ver)}
OwnText == {Text(name, Value("inherited", 0, FALSE)) : name \in Names}
Buffers == {"db_user", "db_passwd"}

BuffersOk(bufs, ver) == bufs \in [Buffers -> FileText(ver)]
EnvironOk(env) ==
    /\ \E n \in Nat : DOMAIN env \subseteq 1 .. n
    /\ \A i \in DOMAIN env :
          \/ env[i].in \in Buffers
          \/ env[i].in = "own" /\ env[i].text \in OwnText

LEMMA TextFields ==
    /\ \A name, v : Text(name, v).name = name /\ Text(name, v).value = v
    /\ \A from, ver, cut : /\ Value(from, ver, cut).from = from
                           /\ Value(from, ver, cut).ver = ver
BY DEF Text, Value

\* Where a slot leads: to an inherited text or to one of the last file read.
LEMMA TextInOk ==
    ASSUME NEW env, NEW bufs, NEW ver, EnvironOk(env), BuffersOk(bufs, ver),
           NEW i \in DOMAIN env
    PROVE  TextIn(env[i], bufs) \in OwnText \cup FileText(ver)
<1>1. CASE env[i].in \in Buffers
  BY <1>1 DEF TextIn, BuffersOk, Buffers
<1>2. CASE env[i].in = "own" /\ env[i].text \in OwnText
  BY <1>2 DEF TextIn
<1> QED
  BY <1>1, <1>2 DEF EnvironOk

LEMMA SlotsIn ==
    ASSUME NEW env, NEW bufs, EnvironOk(env), NEW name
    PROVE  /\ SlotsOf(name, env, bufs) \in SUBSET Nat
           /\ SlotsOf(name, env, bufs) \subseteq DOMAIN env
<1>1. PICK n \in Nat : DOMAIN env \subseteq 1 .. n
  BY DEF EnvironOk
<1> QED
  BY <1>1 DEF SlotsOf

\* What getenv finds was inherited or is of the last file read, and is not nothing.
LEMMA GetEnvOk ==
    ASSUME NEW env, NEW bufs, NEW ver, EnvironOk(env), BuffersOk(bufs, ver),
           NEW name, NEW default
    PROVE  \/ GetEnv(name, default, env, bufs) = default
           \/ GetEnv(name, default, env, bufs) \in {Value("inherited", 0, FALSE)} \cup FromFile(ver)
<1> DEFINE slots == SlotsOf(name, env, bufs)
<1>1. CASE slots = {}
  BY <1>1 DEF GetEnv
<1>2. CASE slots # {}
  <2>1. Least(slots) \in slots /\ slots \subseteq DOMAIN env
    BY <1>2, SlotsIn, LeastFirst
  <2> DEFINE t == TextIn(env[Least(slots)], bufs)
  <2>2. t \in OwnText \cup FileText(ver) /\ t.value # Nothing
    BY <2>1, TextInOk DEF SlotsOf, IsSet
  <2> HIDE DEF t
  <2>3. t.value \in {Value("inherited", 0, FALSE)} \cup FromFile(ver)
    <3>1. CASE t \in OwnText
      <4>1. PICK name1 \in Names : t = Text(name1, Value("inherited", 0, FALSE))
        BY <3>1 DEF OwnText
      <4> QED
        BY <4>1 DEF Text
    <3>2. CASE t \in FileText(ver)
      <4>1. PICK name1 \in Names, v \in {Nothing} \cup FromFile(ver) : t = Text(name1, v)
        BY <3>2 DEF FileText
      <4>2. t.value = v
        BY <4>1 DEF Text
      <4> QED
        BY <2>2, <4>1, <4>2
    <3> QED
      BY <2>2, <3>1, <3>2
  <2> USE DEF t
  <2> QED
    BY <1>2, <2>3 DEF GetEnv
<1> QED
  BY <1>1, <1>2

LEMMA NewSlotOk ==
    ASSUME NEW env, EnvironOk(env)
    PROVE  NewSlot(env) \in Nat \ {0} /\ NewSlot(env) \notin DOMAIN env
<1>1. CASE DOMAIN env = {}
  BY <1>1 DEF NewSlot
<1>2. CASE DOMAIN env # {}
  <2>1. PICK n \in Nat : DOMAIN env \subseteq 1 .. n
    BY DEF EnvironOk
  <2>2. \E i \in DOMAIN env : \A j \in DOMAIN env : j <= i
    BY <1>2, <2>1, GreatestIn
  <2> DEFINE top == CHOOSE i \in DOMAIN env : \A j \in DOMAIN env : j <= i
  <2>3. top \in DOMAIN env /\ \A j \in DOMAIN env : j <= top
    BY <2>2
  <2>4. NewSlot(env) = 1 + top
    BY <1>2 DEF NewSlot
  <2> HIDE DEF top
  <2> QED
    BY <2>1, <2>3, <2>4
<1> QED
  BY <1>1, <1>2

\* The slot that putenv writes.
At(name, env, bufs) == IF SlotsOf(name, env, bufs) = {} THEN NewSlot(env)
                       ELSE Least(SlotsOf(name, env, bufs))

LEMMA AtOk ==
    ASSUME NEW env, EnvironOk(env), NEW bufs, NEW name
    PROVE  /\ At(name, env, bufs) \in Nat \ {0}
           /\ \/ At(name, env, bufs) \notin DOMAIN env /\ SlotsOf(name, env, bufs) = {}
              \/ /\ At(name, env, bufs) \in SlotsOf(name, env, bufs)
                 /\ At(name, env, bufs) = Least(SlotsOf(name, env, bufs))
<1>1. CASE SlotsOf(name, env, bufs) = {}
  BY <1>1, NewSlotOk DEF At
<1>2. CASE SlotsOf(name, env, bufs) # {}
  <2>1. Least(SlotsOf(name, env, bufs)) \in SlotsOf(name, env, bufs)
    BY <1>2, SlotsIn, LeastFirst
  <2>2. Least(SlotsOf(name, env, bufs)) \in Nat \ {0}
    BY <2>1, SlotsIn DEF EnvironOk
  <2> QED
    BY <1>2, <2>1, <2>2 DEF At
<1> QED
  BY <1>1, <1>2

LEMMA PutEnvSets ==
    ASSUME NEW env, NEW bufs, NEW buf, IsSet(bufs[buf]),
           NEW at, at = At(bufs[buf].name, env, bufs),
           NEW new, new = PutEnv(buf, env, bufs)
    PROVE  /\ DOMAIN new = DOMAIN env \cup {at}
           /\ new[at] = Pointed(buf, bufs)
           /\ \A i \in DOMAIN env \ {at} : new[i] = env[i]
BY DEF PutEnv, At

LEMMA PutEnvOk ==
    ASSUME NEW env, EnvironOk(env), NEW bufs, NEW buf \in Buffers
    PROVE  EnvironOk(PutEnv(buf, env, bufs))
<1>1. PICK n \in Nat : DOMAIN env \subseteq 1 .. n
  BY DEF EnvironOk
<1> DEFINE new == PutEnv(buf, env, bufs)
           at == At(bufs[buf].name, env, bufs)
<1>2. CASE IsSet(bufs[buf])
  <2>1. /\ DOMAIN new = DOMAIN env \cup {at} /\ new[at] = Pointed(buf, bufs)
        /\ \A i \in DOMAIN env \ {at} : new[i] = env[i]
    BY <1>2, PutEnvSets
  <2>2. at \in Nat \ {0}
    BY AtOk
  <2> HIDE DEF new, at
  <2>3. n + at \in Nat /\ DOMAIN new \subseteq 1 .. n + at
    BY <1>1, <2>1, <2>2
  <2>4. new[at].in = buf
    BY <2>1 DEF Pointed, Slot
  <2>5. ASSUME NEW i \in DOMAIN new
        PROVE  \/ new[i].in \in Buffers
               \/ new[i].in = "own" /\ new[i].text \in OwnText
    BY <2>1, <2>4 DEF EnvironOk
  <2> QED
    BY <2>3, <2>5 DEF EnvironOk, new
<1>3. CASE ~IsSet(bufs[buf])
  <2>1. new = [i \in DOMAIN env \ SlotsOf(bufs[buf].name, env, bufs) |-> env[i]]
    BY <1>3 DEF PutEnv
  <2>2. DOMAIN new \subseteq 1 .. n
    BY <1>1, <2>1
  <2> QED
    BY <2>1, <2>2 DEF EnvironOk
<1> QED
  BY <1>2, <1>3

--------------------------------------------------------------------------------
(* The invariant *)

IInv == /\ EnvironOk(environ)
        /\ BuffersOk(buffer, last.read.ver)
        /\ url = GetDbpath(environ, buffer)

LEMMA DbpathOk ==
    ASSUME NEW env, NEW bufs, NEW ver, EnvironOk(env), BuffersOk(bufs, ver)
    PROVE  /\ GetDbpath(env, bufs).user \in
                 {Root, Value("inherited", 0, FALSE)} \cup FromFile(ver)
           /\ GetDbpath(env, bufs).passwd \in
                 {Nothing, Value("inherited", 0, FALSE)} \cup FromFile(ver)
<1>1. /\ GetDbpath(env, bufs).user = GetEnv("DB_USER", Root, env, bufs)
      /\ GetDbpath(env, bufs).passwd = GetEnv("DB_PASSWD", Nothing, env, bufs)
  BY DEF GetDbpath
<1>2. GetEnv("DB_USER", Root, env, bufs) \in
          {Root, Value("inherited", 0, FALSE)} \cup FromFile(ver)
  BY GetEnvOk, Zenon
<1>3. GetEnv("DB_PASSWD", Nothing, env, bufs) \in
          {Nothing, Value("inherited", 0, FALSE)} \cup FromFile(ver)
  BY GetEnvOk, Zenon
<1> QED
  BY <1>1, <1>2, <1>3

LEMMA EmptyOk == \A ver : Empty \in FileText(ver)
<1> SUFFICES ASSUME NEW ver PROVE Empty \in FileText(ver)
  OBVIOUS
<1>1. ASSUME NEW name \in Names, NEW v \in {Nothing} \cup FromFile(ver)
      PROVE  Text(name, v) \in FileText(ver)
  BY <1>1 DEF FileText
<1>2. "" \in Names
  BY DEF Names
<1>3. Nothing \in {Nothing} \cup FromFile(ver)
  OBVIOUS
<1> QED
  BY <1>1, <1>2, <1>3, Zenon DEF Empty

LEMMA GetLineOk ==
    ASSUME NEW line \in Line, NEW ver
    PROVE  GetLine(line, ver) \in FileText(ver)
<1>1. line.name \in Names /\ (line.form = "long") \in BOOLEAN
  BY DEF Line, Names
<1>2. Value("file", ver, line.form = "long") \in FromFile(ver)
  BY <1>1, Zenon DEF FromFile
<1>3. Empty \in FileText(ver)
  BY EmptyOk
<1>4. ASSUME NEW v \in {Nothing} \cup FromFile(ver) PROVE Text(line.name, v) \in FileText(ver)
  BY <1>1, <1>4 DEF FileText
<1> QED
  BY <1>2, <1>3, <1>4, Zenon DEF GetLine

\* The file is what was written last, or has been removed.
FileOk == /\ version \in 0 .. MaxVersion
          /\ file = NoFile \/ \E first, second \in Lines :
                file = File(TRUE, first, second, file.ver) /\ file.ver \in 0 .. version

LEMMA FileLines ==
    ASSUME FileOk
    PROVE  /\ {file.first, file.second} \subseteq Line /\ SecondLine(file) \in Line
           /\ file.there \in BOOLEAN /\ file.ver \in 0 .. version
<1>1. NoLine \in Line
  BY DEF NoLine, Line
<1>2. CASE file = NoFile
  BY <1>1, <1>2 DEF NoFile, File, SecondLine, FileOk
<1>3. ASSUME NEW first \in Lines, NEW second \in Lines,
             file = File(TRUE, first, second, file.ver)
      PROVE  file.first = first /\ file.second = second /\ file.there = TRUE
  BY <1>3 DEF File
<1>4. CASE file # NoFile
  <2>1. PICK first \in Lines, second \in Lines :
           file = File(TRUE, first, second, file.ver) /\ file.ver \in 0 .. version
    BY <1>4 DEF FileOk
  <2> QED
    BY <1>1, <1>3, <2>1, CredentialAssumption DEF CredentialAssumption, SecondLine
<1> QED
  BY <1>2, <1>4

LEMMA InitIInv == Init => IInv /\ FileOk
<1> SUFFICES ASSUME Init PROVE IInv /\ FileOk
  OBVIOUS
<1>1. EnvironOk(environ)
  <2>1. PICK names \in Environments : environ = Inherited(names)
    BY DEF Init
  <2>2. DOMAIN environ \subseteq 1 .. 2
    BY <2>1 DEF Inherited
  <2>3. \A i \in DOMAIN environ : environ[i].in = "own" /\ environ[i].text \in OwnText
    BY <2>1 DEF Inherited, Slot, OwnText, Names, Variables
  <2> QED
    BY <2>2, <2>3 DEF EnvironOk
<1>2. BuffersOk(buffer, last.read.ver)
  BY EmptyOk DEF Init, BuffersOk, Buffers
<1>3. FileOk
  BY CredentialAssumption DEF Init, FileOk, CredentialAssumption
<1> QED
  BY <1>1, <1>2, <1>3 DEF Init, IInv

LEMMA NextFile == FileOk /\ [Next]_vars => FileOk'
<1> SUFFICES ASSUME FileOk, [Next]_vars PROVE FileOk'
  OBVIOUS
<1>1. ASSUME NEW first \in Lines, NEW second \in Lines, WriteFile(first, second) PROVE FileOk'
  <2>1. version' \in 0 .. MaxVersion /\ file' = File(TRUE, first, second, version')
    BY <1>1, CredentialAssumption DEF WriteFile, FileOk, CredentialAssumption
  <2>2. file'.ver = version'
    BY <2>1 DEF File
  <2>3. file' = File(TRUE, first, second, file'.ver) /\ file'.ver \in 0 .. version'
    <3>1. file' = File(TRUE, first, second, file'.ver)
      BY <2>1, <2>2, Zenon
    <3>2. version' \in 0 .. version'
      BY <2>1, CredentialAssumption DEF CredentialAssumption
    <3> QED
      BY <2>2, <3>1, <3>2, Zenon
  <2> QED
    BY <2>1, <2>3, Zenon DEF FileOk
<1>2. CASE RemoveFile
  BY <1>2 DEF RemoveFile, FileOk
<1>3. CASE UNCHANGED <<file, version>>
  BY <1>3 DEF FileOk
<1> QED
  BY <1>1, <1>2, <1>3 DEF Next, CheckFile, ReadFile, Dbpath, vars

LEMMA NextIInv == IInv /\ FileOk /\ [Next]_vars => IInv'
<1> SUFFICES ASSUME IInv, FileOk, [Next]_vars PROVE IInv'
  OBVIOUS
<1>1. CASE ReadFile
  <2> DEFINE bufs == [db_user   |-> GetLine(file.first, file.ver),
                      db_passwd |-> GetLine(SecondLine(file), file.ver)]
             env == PutEnv("db_passwd", PutEnv("db_user", environ, bufs), bufs)
  <2>1. /\ buffer' = bufs /\ environ' = env /\ url' = GetDbpath(env, bufs)
        /\ last' = [ok |-> TRUE, read |-> file]
    BY <1>1, Zenon DEF ReadFile
  <2>2. bufs \in [Buffers -> FileText(file.ver)]
    BY FileLines, GetLineOk DEF Buffers
  <2> HIDE DEF bufs
  <2>3. EnvironOk(env)
    BY PutEnvOk DEF IInv, Buffers
  <2>4. last'.read.ver = file.ver
    BY <2>1
  <2> QED
    BY <2>1, <2>2, <2>3, <2>4, Zenon DEF IInv, BuffersOk
<1>2. ASSUME UNCHANGED <<environ, buffer, url>>, last'.read.ver = last.read.ver PROVE IInv'
  BY <1>2 DEF IInv
<1>3. CASE CheckFile
  BY <1>2, <1>3 DEF CheckFile
<1>4. CASE Dbpath
  BY <1>4 DEF Dbpath, IInv
<1> QED
  BY <1>1, <1>2, <1>3, <1>4 DEF Next, WriteFile, RemoveFile, vars

\* The URL is always made of what was inherited and of the last file that was read,
\* whatever earlier files left in the buffers the environment points to.
THEOREM CredentialsFresh == Spec => []FileCredentialsAreFresh
<1>1. IInv => FileCredentialsAreFresh
  <2> SUFFICES ASSUME IInv, NEW v \in {url.user, url.passwd}, v.from = "file"
               PROVE  v.ver = last.read.ver
    BY DEF FileCredentialsAreFresh
  <2>1. v \in {Root, Nothing, Value("inherited", 0, FALSE)} \cup FromFile(last.read.ver)
    <3>1. url.user \in {Root, Value("inherited", 0, FALSE)} \cup FromFile(last.read.ver)
      BY DbpathOk DEF IInv
    <3>2. url.passwd \in {Nothing, Value("inherited", 0, FALSE)} \cup FromFile(last.read.ver)
      BY DbpathOk DEF IInv
    <3> QED
      BY <3>1, <3>2
  <2>2. v \in FromFile(last.read.ver)
    BY <2>1 DEF Root, Nothing, Value
  <2> QED
    BY <2>2 DEF FromFile, Value
<1> QED
  BY InitIInv, NextIInv, NextFile, <1>1, PTL DEF Spec

--------------------------------------------------------------------------------
(* A well-formed file wins *)

\* A text in a buffer whose slot is the first of its name is what getenv finds.
LEMMA FirstIsFound ==
    ASSUME NEW env, NEW bufs, NEW name, NEW default, NEW at \in Nat,
           at \in SlotsOf(name, env, bufs),
           \A i \in SlotsOf(name, env, bufs) : at <= i,
           SlotsOf(name, env, bufs) \in SUBSET Nat
    PROVE  GetEnv(name, default, env, bufs) = TextIn(env[at], bufs).value
<1>1. Least(SlotsOf(name, env, bufs)) = at
  BY DEF Least
<1> QED
  BY <1>1 DEF GetEnv

\* After putenv of a buffer its name's first slot is the pointer to it.
LEMMA PutEnvFirst ==
    ASSUME NEW env, EnvironOk(env), NEW bufs, NEW buf \in Buffers, IsSet(bufs[buf]),
           NEW new, new = PutEnv(buf, env, bufs),
           NEW name, name = bufs[buf].name,
           NEW at, at = At(name, env, bufs)
    PROVE  /\ at \in SlotsOf(name, new, bufs) /\ new[at] = Pointed(buf, bufs)
           /\ \A i \in SlotsOf(name, new, bufs) : at <= i
           /\ \A other : other # name =>
                 SlotsOf(other, new, bufs) = SlotsOf(other, env, bufs) \ {at}
           /\ \A i \in DOMAIN env \ {at} : new[i] = env[i]
<1>1. /\ DOMAIN new = DOMAIN env \cup {at} /\ new[at] = Pointed(buf, bufs)
      /\ \A i \in DOMAIN env \ {at} : new[i] = env[i]
  BY PutEnvSets
<1>2. TextIn(new[at], bufs) = bufs[buf]
  BY <1>1 DEF Pointed, Slot, TextIn, Buffers
<1>3. at \in SlotsOf(name, new, bufs)
  BY <1>1, <1>2 DEF SlotsOf
<1>4. \A i \in SlotsOf(name, new, bufs) \ {at} : i \in SlotsOf(name, env, bufs)
  BY <1>1 DEF SlotsOf
<1>5. \A i \in SlotsOf(name, env, bufs) : at <= i
  <2>1. CASE SlotsOf(name, env, bufs) = {}
    BY <2>1
  <2>2. CASE SlotsOf(name, env, bufs) # {}
    BY <2>2, SlotsIn, LeastFirst DEF At
  <2> QED
    BY <2>1, <2>2
<1>6. at \in Nat
  BY AtOk
<1>7. ASSUME NEW other, other # name
      PROVE  SlotsOf(other, new, bufs) = SlotsOf(other, env, bufs) \ {at}
  BY <1>1, <1>2, <1>7 DEF SlotsOf
<1> QED
  BY <1>1, <1>3, <1>4, <1>5, <1>6, <1>7

\* Two buffers that set both variables, put into any environment.
LEMMA BothFound ==
    ASSUME NEW env, EnvironOk(env), NEW bufs, NEW v, v # Nothing,
           NEW first \in Variables, NEW second \in Variables, first # second,
           bufs["db_user"] = Text(first, v), bufs["db_passwd"] = Text(second, v),
           NEW mid, mid = PutEnv("db_user", env, bufs),
           NEW new, new = PutEnv("db_passwd", mid, bufs),
           NEW name \in Variables, NEW default
    PROVE  GetEnv(name, default, new, bufs) = v
<1>1. /\ bufs["db_user"].name = first /\ bufs["db_passwd"].name = second
      /\ bufs["db_user"].value = v /\ bufs["db_passwd"].value = v
      /\ first # "" /\ second # ""
  <2>1. /\ bufs["db_user"].name = first /\ bufs["db_passwd"].name = second
        /\ bufs["db_user"].value = v /\ bufs["db_passwd"].value = v
    BY DEF Text
  <2>2. first # "" /\ second # ""
    BY DEF Variables
  <2> QED
    BY <2>1, <2>2
<1>2. IsSet(bufs["db_user"]) /\ IsSet(bufs["db_passwd"])
  BY <1>1 DEF IsSet
<1>3. EnvironOk(mid) /\ EnvironOk(new)
  BY PutEnvOk DEF Buffers
<1> DEFINE at == At(first, env, bufs)
           at2 == At(second, mid, bufs)
<1>4. /\ at \in SlotsOf(first, mid, bufs) /\ mid[at] = Pointed("db_user", bufs)
      /\ \A i \in SlotsOf(first, mid, bufs) : at <= i
  <2>1. "db_user" \in Buffers
    BY DEF Buffers
  <2>2. PICK a : a = at
    OBVIOUS
  <2>3. a = At(bufs["db_user"].name, env, bufs)
    BY <1>1, <2>2, Zenon DEF at
  <2>4. /\ a \in SlotsOf(first, mid, bufs) /\ mid[a] = Pointed("db_user", bufs)
        /\ \A i \in SlotsOf(first, mid, bufs) : a <= i
    <3> HIDE DEF at
    <3>1. first = bufs["db_user"].name /\ a = At(first, env, bufs)
      BY <1>1, <2>3, Zenon
    <3> QED
      BY <1>2, <2>1, <3>1, PutEnvFirst
  <2> QED
    BY <2>2, <2>4, Zenon
<1>5. /\ at2 \in SlotsOf(second, new, bufs) /\ new[at2] = Pointed("db_passwd", bufs)
      /\ \A i \in SlotsOf(second, new, bufs) : at2 <= i
      /\ SlotsOf(first, new, bufs) = SlotsOf(first, mid, bufs) \ {at2}
      /\ \A i \in DOMAIN mid \ {at2} : new[i] = mid[i]
  <2>1. "db_passwd" \in Buffers
    BY DEF Buffers
  <2>2. PICK a : a = at2
    OBVIOUS
  <2>3. a = At(bufs["db_passwd"].name, mid, bufs)
    BY <1>1, <2>2, Zenon DEF at2
  <2>4. /\ a \in SlotsOf(second, new, bufs) /\ new[a] = Pointed("db_passwd", bufs)
        /\ \A i \in SlotsOf(second, new, bufs) : a <= i
        /\ SlotsOf(first, new, bufs) = SlotsOf(first, mid, bufs) \ {a}
        /\ \A i \in DOMAIN mid \ {a} : new[i] = mid[i]
    <3> HIDE DEF at, at2
    <3>1. second = bufs["db_passwd"].name /\ a = At(second, mid, bufs)
      BY <1>1, <2>3, Zenon
    <3>2. /\ a \in SlotsOf(second, new, bufs) /\ new[a] = Pointed("db_passwd", bufs)
          /\ \A i \in SlotsOf(second, new, bufs) : a <= i
          /\ \A other : other # second =>
                SlotsOf(other, new, bufs) = SlotsOf(other, mid, bufs) \ {a}
          /\ \A i \in DOMAIN mid \ {a} : new[i] = mid[i]
      <4>1. EnvironOk(mid) /\ IsSet(bufs["db_passwd"]) /\ new = PutEnv("db_passwd", mid, bufs)
        BY <1>2, <1>3
      <4>2. PICK buf \in Buffers : buf = "db_passwd"
        BY <2>1
      <4>3. /\ IsSet(bufs[buf]) /\ new = PutEnv(buf, mid, bufs)
            /\ second = bufs[buf].name /\ a = At(second, mid, bufs)
        BY <3>1, <4>1, <4>2, Zenon
      <4>4. /\ a \in SlotsOf(second, new, bufs) /\ new[a] = Pointed(buf, bufs)
            /\ \A i \in SlotsOf(second, new, bufs) : a <= i
            /\ \A other : other # second =>
                  SlotsOf(other, new, bufs) = SlotsOf(other, mid, bufs) \ {a}
            /\ \A i \in DOMAIN mid \ {a} : new[i] = mid[i]
        BY <4>1, <4>3, PutEnvFirst
      <4> QED
        BY <4>2, <4>4, Zenon
    <3> QED
      BY <3>2, Zenon
  <2> QED
    BY <2>2, <2>4, Zenon
<1>6. at \in Nat /\ at2 \in Nat /\ at \in DOMAIN mid
  BY <1>3, <1>4, AtOk DEF SlotsOf
<1>7. at # at2
  <2>1. TextIn(mid[at], bufs) = bufs["db_user"]
    BY <1>4 DEF Pointed, Slot, TextIn
  <2>2. at \notin SlotsOf(second, mid, bufs)
    BY <1>1, <2>1 DEF SlotsOf
  <2> QED
    BY <1>3, <1>6, <2>2, AtOk
<1> HIDE DEF at, at2
<1>8. new[at] = Pointed("db_user", bufs)
  BY <1>4, <1>5, <1>6, <1>7
<1>9. TextIn(new[at], bufs) = bufs["db_user"] /\ TextIn(new[at2], bufs) = bufs["db_passwd"]
  BY <1>5, <1>8 DEF Pointed, Slot, TextIn
<1>10. CASE name = first
  <2>1. at \in SlotsOf(first, new, bufs) /\ \A i \in SlotsOf(first, new, bufs) : at <= i
    BY <1>4, <1>5, <1>7
  <2>2. GetEnv(first, default, new, bufs) = TextIn(new[at], bufs).value
    BY <1>3, <1>6, <2>1, FirstIsFound, SlotsIn
  <2> QED
    BY <1>1, <1>9, <1>10, <2>2
<1>11. CASE name = second
  <2>1. GetEnv(second, default, new, bufs) = TextIn(new[at2], bufs).value
    BY <1>3, <1>5, <1>6, FirstIsFound, SlotsIn
  <2> QED
    BY <1>1, <1>9, <1>11, <2>1
<1> QED
  BY <1>10, <1>11 DEF Variables

\* What getenv finds after a file that sets both variables was read.
WinsInv == SetsBoth(last.read) =>
              LET v == Value("file", last.read.ver, FALSE) IN
              GetDbpath(environ, buffer) = [user |-> v, passwd |-> v]

LEMMA NextWins == IInv /\ FileOk /\ WinsInv /\ [Next]_vars => WinsInv'
<1> SUFFICES ASSUME IInv, FileOk, WinsInv, [Next]_vars PROVE WinsInv'
  OBVIOUS
<1>1. CASE ReadFile
  <2> DEFINE bufs == [db_user   |-> GetLine(file.first, file.ver),
                      db_passwd |-> GetLine(SecondLine(file), file.ver)]
             env == PutEnv("db_passwd", PutEnv("db_user", environ, bufs), bufs)
             v == Value("file", file.ver, FALSE)
  <2>1. buffer' = bufs /\ environ' = env /\ last' = [ok |-> TRUE, read |-> file]
    BY <1>1, Zenon DEF ReadFile
  <2>2. last'.read = file
    BY <2>1
  <2> SUFFICES ASSUME SetsBoth(file)
               PROVE  GetDbpath(env, bufs) = [user |-> v, passwd |-> v]
    BY <2>1, <2>2, Zenon DEF WinsInv
  <2>3. /\ file.first.form = "set" /\ file.second.form = "set"
        /\ file.first.name \in Variables /\ file.second.name \in Variables
        /\ file.first.name # file.second.name
    <3> DEFINE pairs == {<<l.name, l.form>> : l \in {file.first, file.second}}
    <3>1. pairs = Variables \X {"set"}
      BY DEF SetsBoth
    <3>2. /\ <<file.first.name, file.first.form>> \in Variables \X {"set"}
          /\ <<file.second.name, file.second.form>> \in Variables \X {"set"}
      BY <3>1
    <3>3. <<"DB_USER", "set">> \in pairs /\ <<"DB_PASSWD", "set">> \in pairs
      BY <3>1 DEF Variables
    <3>4. "DB_USER" \in {file.first.name, file.second.name}
          /\ "DB_PASSWD" \in {file.first.name, file.second.name}
      BY <3>3
    <3> QED
      BY <3>2, <3>4
  <2>4. SecondLine(file) = file.second
    BY <2>3 DEF SecondLine
  <2>5. \A line : line.form = "set" /\ line.name \in Variables =>
           GetLine(line, file.ver) = Text(line.name, v)
    BY DEF GetLine, Variables
  <2>6. /\ bufs["db_user"] = Text(file.first.name, v)
        /\ bufs["db_passwd"] = Text(file.second.name, v)
    BY <2>3, <2>4, <2>5
  <2>7. v # Nothing
    BY DEF Nothing, Value
  <2> HIDE DEF bufs, v
  <2>8. \A name \in Variables : \A default : GetEnv(name, default, env, bufs) = v
    BY <2>3, <2>6, <2>7, BothFound DEF IInv
  <2> QED
    BY <2>8 DEF GetDbpath, Variables
<1>2. ASSUME UNCHANGED <<environ, buffer>>, last'.read = last.read PROVE WinsInv'
  BY <1>2 DEF WinsInv
<1>3. CASE CheckFile
  BY <1>2, <1>3 DEF CheckFile
<1> QED
  BY <1>1, <1>2, <1>3 DEF Next, WriteFile, RemoveFile, Dbpath, vars

\* Once a file that sets both variables was read, and until the next is, the URL is
\* made of exactly that file, whatever was inherited or read before.
THEOREM WellFormedWins == Spec => []WellFormedFileWins
<1>1. Init => WinsInv
  <2> SUFFICES ASSUME Init, SetsBoth(last.read) PROVE FALSE
    BY DEF WinsInv
  <2>1. last.read.first.name = ""
    BY DEF Init, NoFile, File, NoLine
  <2>2. <<last.read.first.name, last.read.first.form>> \in Variables \X {"set"}
    BY DEF SetsBoth
  <2> QED
    BY <2>1, <2>2 DEF Variables
<1>2. IInv /\ WinsInv => WellFormedFileWins
  BY DEF IInv, WinsInv, WellFormedFileWins
<1> QED
  BY InitIInv, NextIInv, NextFile, NextWins, <1>1, <1>2, PTL DEF Spec

--------------------------------------------------------------------------------
(* Type correctness *)

PcOk == pc \in {"idle", "read"}

LEMMA NextPc == PcOk /\ [Next]_vars => PcOk'
BY DEF PcOk, Next, WriteFile, RemoveFile, CheckFile, ReadFile, Dbpath, vars

\* The file, the buffers, the slots of the environment and the URL keep their types:
\* the URL's user is root, inherited or of a file, and never nothing.
THEOREM TypeCorrect == Spec => []TypeOK
<1>1. Init => PcOk
  BY DEF Init, PcOk
<1>2. ASSUME IInv, FileOk, PcOk PROVE TypeOK
  <2>1. /\ file.there \in BOOLEAN /\ {file.first, file.second} \subseteq Line
        /\ version \in 0 .. MaxVersion /\ file.ver <= version
    <3>1. /\ {file.first, file.second} \subseteq Line /\ file.there \in BOOLEAN
          /\ file.ver \in 0 .. version
      BY <1>2, FileLines
    <3>2. version \in 0 .. MaxVersion
      BY <1>2 DEF FileOk
    <3> QED
      BY <3>1, <3>2
  <2>2. ASSUME NEW b \in Buffers PROVE buffer[b].name \in Names
    <3>1. buffer[b] \in FileText(last.read.ver)
      BY <1>2 DEF IInv, BuffersOk
    <3>2. PICK name \in Names, v \in {Nothing} \cup FromFile(last.read.ver) :
             buffer[b] = Text(name, v)
      BY <3>1 DEF FileText
    <3> QED
      BY <3>2, TextFields
  <2>3. \A i \in DOMAIN environ : environ[i].in \in {"own", "db_user", "db_passwd"}
    BY <1>2 DEF IInv, EnvironOk, Buffers
  <2>4. /\ \A v \in FromFile(last.read.ver) : v.from = "file"
        /\ Value("inherited", 0, FALSE).from = "inherited"
        /\ Root.from = "root" /\ Nothing.from = "nothing"
    BY DEF FromFile, Root, Nothing, Value
  <2>5. url.user \in {Root, Value("inherited", 0, FALSE)} \cup FromFile(last.read.ver)
    BY <1>2, DbpathOk DEF IInv
  <2>6. url.passwd \in {Nothing, Value("inherited", 0, FALSE)} \cup FromFile(last.read.ver)
    BY <1>2, DbpathOk DEF IInv
  <2>7. /\ url.user.from \in {"root", "inherited", "file"}
        /\ url.passwd.from \in {"nothing", "inherited", "file"}
    BY <2>4, <2>5, <2>6
  <2> QED
    BY <1>2, <2>1, <2>2, <2>3, <2>7 DEF TypeOK, Buffers, Names, PcOk
<1> QED
  BY InitIInv, NextIInv, NextFile, NextPc, <1>1, <1>2, PTL DEF Spec
================================================================================
