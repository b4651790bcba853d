----------------------------- MODULE Credentials ------------------------------
(***************************************************************************)
(* The connection URL and the credentials it is made of.  A process starts *)
(* with the environment it inherits and the URL computed from it;          *)
(* dbreadcredentials puts the two lines of the credentials file into the   *)
(* environment and computes the URL again, dbpath only computes it.  The   *)
(* file is replaced and removed by others, also between the check that it  *)
(* is there and its reading.  One thread calls these functions.            *)
(*                                                                         *)
(* putenv does not copy: the environment keeps pointers to the two static  *)
(* buffers, so what it holds changes when they are read again.             *)
(*                                                                         *)
(* A value is not spelled out: it is known by where it comes from, by the  *)
(* version of the file, and by whether it was cut at the buffer's end.     *)
(* External: putenv and getenv of glibc, getline, and the file.            *)
(***************************************************************************)
EXTENDS Naturals

CONSTANTS
    Environments,   \* the environments a process may inherit, as sets of names
    Lines,          \* what a line of the file may be
    MaxVersion      \* bound: how often the file is written

Variables == {"DB_USER", "DB_PASSWD"}

\* A line: the name before "=", or "" for an empty line; its form is "set", "long"
\* (255 characters do not hold it) or "bare" (there is no "=").
Line == [name : Variables \cup {"", "OTHER"}, form : {"set", "long", "bare"}]

ASSUME CredentialAssumption ==
    /\ Environments \subseteq SUBSET Variables
    /\ Lines \subseteq Line
    /\ MaxVersion \in Nat

VARIABLES
    file,       \* the credentials file
    version,    \* how often it was written
    buffer,     \* the texts in the static buffers db_user and db_passwd
    environ,    \* the environment: slots with texts or pointers to buffers
    url,        \* the global URL: its user and its password
    pc,         \* where dbreadcredentials is
    last        \* the last call that returned: its answer and the file it read

vars == <<file, version, buffer, environ, url, pc, last>>

Value(from, ver, cut) == [from |-> from, ver |-> ver, cut |-> cut]
Nothing == Value("nothing", 0, FALSE)
Root == Value("root", 0, FALSE)

\* A text that may be in the environment; a bare one has no value.
Text(name, value) == [name |-> name, value |-> value]
Empty == Text("", Nothing)
IsSet(t) == t.name # "" /\ t.value # Nothing

File(there, first, second, ver) ==
    [there |-> there, first |-> first, second |-> second, ver |-> ver]
NoLine == [name |-> "", form |-> "set"]
NoFile == File(FALSE, NoLine, NoLine, 0)

Slot(in, text) == [in |-> in, text |-> text]
TextIn(slot, bufs) == IF slot.in = "own" THEN slot.text ELSE bufs[slot.in]

--------------------------------------------------------------------------------
(* getenv, putenv and the URL *)

\* The slots in which a variable is set.
SlotsOf(name, env, bufs) ==
    {i \in DOMAIN env : LET t == TextIn(env[i], bufs) IN t.name = name /\ IsSet(t)}
Least(S) == CHOOSE i \in S : \A j \in S : i <= j
NewSlot(env) ==
    IF DOMAIN env = {} THEN 1
    ELSE 1 + CHOOSE i \in DOMAIN env : \A j \in DOMAIN env : j <= i

\* The value of the first slot of that name.
GetEnv(name, default, env, bufs) ==
    LET slots == SlotsOf(name, env, bufs) IN
    IF slots = {} THEN default ELSE TextIn(env[Least(slots)], bufs).value

\* What putenv leaves of the argument in the environment (variant: setenv, which
\* copies it).
Copied(buf, bufs) == Slot("own", bufs[buf])
Pointed(buf, bufs) == Slot(buf, Empty)

\* A text with "=" takes the place of the first of its name, or a new one; one
\* without unsets its name; the empty one does nothing (variant: a variable that
\* is set stays as it is).
KeepsOld(buf, env, bufs) ==
    IF SlotsOf(bufs[buf].name, env, bufs) # {} \/ ~IsSet(bufs[buf]) THEN env
    ELSE LET at == NewSlot(env) IN
         [i \in DOMAIN env \cup {at} |-> IF i = at THEN Pointed(buf, bufs) ELSE env[i]]
PutEnv(buf, env, bufs) ==
    LET t == bufs[buf]
        slots == SlotsOf(t.name, env, bufs)
        at == IF slots = {} THEN NewSlot(env) ELSE Least(slots)
    IN
    IF IsSet(t)
    THEN [i \in DOMAIN env \cup {at} |-> IF i = at THEN Pointed(buf, bufs) ELSE env[i]]
    ELSE [i \in DOMAIN env \ slots |-> env[i]]

\* s_get_dbpath_wo_trace (variant: a user that is not set is not looked at).
NoUserCheck(env, bufs) ==
    [user |-> GetEnv("DB_USER", Nothing, env, bufs),
     passwd |-> GetEnv("DB_PASSWD", Nothing, env, bufs)]
GetDbpath(env, bufs) ==
    [user |-> GetEnv("DB_USER", Root, env, bufs),
     passwd |-> GetEnv("DB_PASSWD", Nothing, env, bufs)]

--------------------------------------------------------------------------------
Inherited(names) ==
    [i \in {IF n = "DB_USER" THEN 1 ELSE 2 : n \in names} |->
        Slot("own", Text(IF i = 1 THEN "DB_USER" ELSE "DB_PASSWD",
                         Value("inherited", 0, FALSE)))]

Init ==
    /\ file = NoFile
    /\ version = 0
    /\ buffer = [b \in {"db_user", "db_passwd"} |-> Empty]
    /\ environ \in {Inherited(names) : names \in Environments}
    /\ url = GetDbpath(environ, buffer)
    /\ pc = "idle"
    /\ last = [ok |-> FALSE, read |-> NoFile]

\* Others write or remove the file.
WriteFile(first, second) ==
    /\ version < MaxVersion
    /\ version' = version + 1
    /\ file' = File(TRUE, first, second, version')
    /\ UNCHANGED <<buffer, environ, url, pc, last>>

RemoveFile ==
    /\ file.there
    /\ file' = NoFile
    /\ UNCHANGED <<version, buffer, environ, url, pc, last>>

\* One line read into a buffer, its double quotes dropped.
GetLine(line, ver) ==
    IF line.name = "" THEN Empty
    ELSE Text(line.name, IF line.form = "bare" THEN Nothing
                         ELSE Value("file", ver, line.form = "long"))

\* A first line that does not fit fails the stream, and nothing more is read;
\* nothing at all is read of a file that has gone.
SecondLine(f) == IF f.first.form = "long" THEN NoLine ELSE f.second

\* dbreadcredentials: the check, then the rest of the function.
CheckFile ==
    /\ pc = "idle"
    /\ IF file.there
       THEN pc' = "read" /\ UNCHANGED last
       ELSE last' = [ok |-> FALSE, read |-> last.read] /\ UNCHANGED pc
    /\ UNCHANGED <<file, version, buffer, environ, url>>

ReadFile ==
    LET bufs == [db_user   |-> GetLine(file.first, file.ver),
                 db_passwd |-> GetLine(SecondLine(file), file.ver)]
        env == PutEnv("db_passwd", PutEnv("db_user", environ, bufs), bufs)
    IN
    /\ pc = "read"
    /\ pc' = "idle"
    /\ buffer' = bufs
    /\ environ' = env
    /\ url' = GetDbpath(env, bufs)
    /\ last' = [ok |-> TRUE, read |-> file]
    /\ UNCHANGED <<file, version>>

\* dbpath called by itself.
Dbpath ==
    /\ pc = "idle"
    /\ url' = GetDbpath(environ, buffer)
    /\ UNCHANGED <<file, version, buffer, environ, pc, last>>

Next ==
    \/ \E first, second \in Lines : WriteFile(first, second)
    \/ RemoveFile \/ CheckFile \/ ReadFile \/ Dbpath

Spec == Init /\ [][Next]_vars

--------------------------------------------------------------------------------
(* Properties *)

\* Types; a slot of its own holds what was inherited.
TypeOK ==
    /\ file.there \in BOOLEAN /\ {file.first, file.second} \subseteq Line
    /\ version \in 0 .. MaxVersion /\ file.ver <= version
    /\ \A b \in {"db_user", "db_passwd"} : buffer[b].name \in Variables \cup {"", "OTHER"}
    /\ \A i \in DOMAIN environ : environ[i].in \in {"own", "db_user", "db_passwd"}
    /\ url.user.from \in {"root", "inherited", "file"}
    /\ url.passwd.from \in {"nothing", "inherited", "file"}
    /\ pc \in {"idle", "read"}

\* Whatever files were read before, with lines missing, too long, without a value
\* or in the other order, and whatever was inherited: after a call has read a file
\* that sets both variables, the URL has exactly that file's user and password.
SetsBoth(f) == {<<l.name, l.form>> : l \in {f.first, f.second}} = Variables \X {"set"}
WellFormedFileWins ==
    SetsBoth(last.read) =>
        LET v == Value("file", last.read.ver, FALSE) IN
        url = [user |-> v, passwd |-> v]

\* No user and no password of an earlier file outlives the reading of a later one,
\* so a URL never joins the user of one file with the password of another.
FileCredentialsAreFresh ==
    \A v \in {url.user, url.passwd} : v.from = "file" => v.ver = last.read.ver
================================================================================
