-------------------------------- MODULE RepoAdd --------------------------------
(***************************************************************************)
(* Enabling a package repository: repo_add.sh, which appends the section   *)
(* of a curated repository to /etc/pacman.conf as root and refreshes the   *)
(* package databases, and the program's own reading of that file (ini.hpp, *)
(* alpm_utils.cpp).  There is one repository; a line of the file matters   *)
(* only when it could be its section header.  The window that starts the   *)
(* script, and what is installed from the repository, are GatedInstall's.  *)
(*                                                                         *)
(* Two scripts can run at once: terminal-helper may answer for a command   *)
(* that is still running (TerminalHelper), and the user then tries again.  *)
(***************************************************************************)
EXTENDS Integers, Sequences, FiniteSets

CONSTANTS
    Scripts,     \* runs of repo_add.sh
    Machines,    \* what a session may start on: the configuration file, the
                 \* state of the repository's signing key in pacman's keyring,
                 \* whether that is the key repo_add.sh names, and whether gpg is
                 \* configured to list keys with their long IDs
    MaxVersion   \* bound on the releases upstream makes

ASSUME RepoAssumption ==
    /\ MaxVersion \in Nat \ {0}
    /\ \A m \in Machines : /\ m.key \in {"absent", "present", "trusted", "bad"}
                            /\ {m.known, m.longIds} \subseteq BOOLEAN

(***************************************************************************)
(* A header-like line: what stands before the bracket, the name between    *)
(* the brackets, and what follows the name.                                *)
(***************************************************************************)
Lines == [lead: {"none", "space", "comment"},
          name: {"repo", "padded", "cased", "other"},
          tail: {"none", "note", "bracket", "unclosed"}]

Header == [lead |-> "none", name |-> "repo", tail |-> "none"]

VARIABLES
    conf,      \* /etc/pacman.conf
    backups,   \* what the .bak-<timestamp> files hold
    key,       \* the repository's signing key in pacman's keyring; a bad one
               \* is expired, revoked or disabled, for good
    known,     \* it is the key repo_add.sh names (REPO_KEY)
    longIds,   \* gpg lists a key with its long ID
    upstream,  \* the release the repository's server holds
    synced,    \* the release the local database describes, 0 when there is none
    script,    \* the runs of repo_add.sh
    overlap    \* a run was started while another had not ended

repoVars == <<conf, backups, key, known, longIds, upstream, synced, script, overlap>>

-----------------------------------------------------------------------------
\* parseLine: a comment is no section; the name ends at the line's LAST
\* bracket, is trimmed, and INIMap folds its case.
Section(line) ==
    IF line.lead = "comment" \/ line.tail = "unclosed" THEN "none"
    ELSE IF line.tail = "bracket" \/ line.name = "other" THEN "other"
    ELSE "repo"

\* The grep of the script: the bare name between brackets, whatever follows.
GrepMatches(line) ==
    line.lead # "comment" /\ line.name = "repo" /\ line.tail # "unclosed"

\* pacman's parser takes a line that ends with its bracket, and the name as it is.
IsActive(line) ==
    line.lead # "comment" /\ line.name = "repo" /\ line.tail = "none"

LinesOf(c, Test(_)) == {i \in DOMAIN c : Test(c[i])}

IsRepoEnabled(c) == \E i \in DOMAIN c : Section(c[i]) = "repo"
\* Variant, for the mutants: the script looks at no line.
NeverEnabled(c) == FALSE
AlreadyEnabled(c) == LinesOf(c, GrepMatches) # {}
PacmanReads(c) == LinesOf(c, IsActive) # {}

\* A file with the section twice is one pacman refuses.
ASSUME ConfsAssumption ==
    \A m \in Machines :
        m.conf \in Seq(Lines) /\ Cardinality(LinesOf(m.conf, GrepMatches)) <= 1

\* parse_alpm registers a database for the section; pacman -Si looks in it.
InSyncDb == PacmanReads(conf) /\ synced > 0

-----------------------------------------------------------------------------
\* hindered: something the script depends on failed under it, a server, gpg,
\* the database lock, a write or the terminal.  said: what pacman complained of
\* at the first refresh ($output).
Idle == [pc |-> "idle", hindered |-> FALSE, said |-> "none", rc |-> 0]
Hindered(s, failed) == [s EXCEPT !.hindered = @ \/ failed]
Ended(rc, s) == [s EXCEPT !.pc = "ended", !.rc = rc]
Active(i) == script[i].pc \notin {"idle", "ended"}

Step(i, from, to) ==
    script[i].pc = from /\ script' = [script EXCEPT ![i].pc = to]

\* set -e: a command that fails outside a condition ends the script.
Fails(i, from) ==
    /\ script[i].pc = from
    /\ script' = [script EXCEPT ![i] = Ended(1, Hindered(@, TRUE))]

Begin(i) ==
    /\ ~ Active(i)
    /\ script' = [script EXCEPT ![i] = [Idle EXCEPT !.pc = "grep"]]
    /\ overlap' = (overlap \/ \E j \in Scripts : Active(j))
    /\ UNCHANGED <<conf, backups, key, known, longIds, upstream, synced>>

\* An active section: no append, no backup, only the refresh.
Grep(i) ==
    /\ Step(i, "grep", IF AlreadyEnabled(conf) THEN "trust" ELSE "backup")
    /\ UNCHANGED <<conf, backups, key, known, longIds, upstream, synced, overlap>>

\* Variant, for the mutants: the copy is made of the file already changed.
BackupLate(i) ==
    /\ Step(i, "backup", "append")
    /\ backups' = backups \cup {Append(conf, Header)}
    /\ UNCHANGED <<conf, key, known, longIds, upstream, synced, overlap>>

\* The file may be missing, and its copy may fail.
Backup(i) ==
    /\ \/ Step(i, "backup", "append") /\ backups' = backups \cup {conf}
       \/ Fails(i, "backup") /\ UNCHANGED backups
    /\ UNCHANGED <<conf, key, known, longIds, upstream, synced, overlap>>

AppendSection(i) ==
    /\ \/ Step(i, "append", "trust") /\ conf' = Append(conf, Header)
       \/ Fails(i, "append") /\ UNCHANGED conf
    /\ UNCHANGED <<backups, key, known, longIds, upstream, synced, overlap>>

\* pacman-key: a key the keyserver gives is in the keyring; gpg signs one that
\* is there and is good.
Fetch(k, got) == IF k = "absent" /\ got THEN "present" ELSE k
FetchOnly(k, signed) == k   \* variant, for the mutants
Sign(k, signed) == IF k = "present" /\ signed THEN "trusted" ELSE k

\* Before the first refresh, best effort: REPO_KEY is fetched and signed.
Trust(i) ==
    /\ script[i].pc = "trust"
    /\ \E got, signed \in BOOLEAN :
          /\ key' = IF known THEN Sign(Fetch(key, got), signed) ELSE key
          /\ script' = [script EXCEPT ![i] = Hindered([@ EXCEPT !.pc = "sync"],
                                                     known /\ ~ (got /\ signed))]
    /\ UNCHANGED <<conf, backups, known, longIds, upstream, synced, overlap>>

\* pacman -Sy: when it is able to (the servers answer, the database is its own and
\* sound) and the signature is trusted it brings the database.
Refreshes(able) == able /\ (PacmanReads(conf) => key = "trusted")

Refreshed(able) ==
    synced' = IF Refreshes(able) /\ PacmanReads(conf) THEN upstream ELSE synced

\* What it complains of: of the key by its ID, when the keyring has not got it
\* (or has it disabled); of the signer, when the key is not trusted; else of
\* something the script has no repair for.
OfTheKey == CASE key = "absent"  -> {"key"}
              [] key = "present" -> {"trust"}
              [] key = "bad"     -> {"key", "other"}
              [] key = "trusted" -> {}
Complaints(able) == OfTheKey \cup (IF able THEN {} ELSE {"other"})

Sync(i) ==
    /\ script[i].pc = "sync"
    /\ \E able \in BOOLEAN :
          /\ IF Refreshes(able)
             THEN script' = [script EXCEPT ![i] = Ended(0, @)]
             ELSE \E complaint \in Complaints(able) :
                     script' = [script EXCEPT ![i] =
                        Hindered([@ EXCEPT !.pc = "repair", !.said = complaint], ~ able)]
          /\ Refreshed(able)
    /\ UNCHANGED <<conf, backups, key, known, longIds, upstream, overlap>>

\* One more refresh when the repair went through.
AfterRepair(s, ok, failed) ==
    IF ok THEN [s EXCEPT !.pc = "retry"] ELSE Ended(1, Hindered(s, failed))

\* Case 1: the key whose ID pacman names is fetched, and then signed.
ImportKey(i) ==
    /\ script[i].pc = "repair" /\ script[i].said = "key"
    /\ \E got, signed \in BOOLEAN :
          /\ key' = IF got THEN Sign(Fetch(key, got), signed) ELSE key
          /\ script' = [script EXCEPT ![i] =
                 AfterRepair(@, got /\ signed /\ key # "bad", ~ (got /\ signed))]
    /\ UNCHANGED <<conf, backups, known, longIds, upstream, synced, overlap>>

\* Case 2: the ID is looked for in the listing of the signer's keys, where the
\* first sixteen digits are the key's ID only when gpg lists long IDs; by
\* default they are the first of its fingerprint, and no key has that ID.
SignSigner(i) ==
    /\ script[i].pc = "repair" /\ script[i].said = "trust"
    /\ \E signed \in BOOLEAN :
          /\ key' = IF longIds THEN Sign(key, signed) ELSE key
          /\ script' = [script EXCEPT ![i] =
                 AfterRepair(@, longIds /\ signed, longIds /\ ~ signed)]
    /\ UNCHANGED <<conf, backups, known, longIds, upstream, synced, overlap>>

GiveUp(i) ==
    /\ script[i].pc = "repair" /\ script[i].said = "other"
    /\ script' = [script EXCEPT ![i] = Ended(1, @)]
    /\ UNCHANGED <<conf, backups, key, known, longIds, upstream, synced, overlap>>

Repair(i) == ImportKey(i) \/ SignSigner(i) \/ GiveUp(i)

Retry(i) ==
    /\ script[i].pc = "retry"
    /\ \E able \in BOOLEAN :
          /\ script' = [script EXCEPT ![i] =
                 IF Refreshes(able) THEN Ended(0, @) ELSE Ended(1, Hindered(@, ~ able))]
          /\ Refreshed(able)
    /\ UNCHANGED <<conf, backups, key, known, longIds, upstream, overlap>>

\* The terminal is closed under the script.
Kill(i) ==
    /\ Active(i)
    /\ Fails(i, script[i].pc)
    /\ UNCHANGED <<conf, backups, key, known, longIds, upstream, synced, overlap>>

ScriptStep ==
    \E i \in Scripts :
        \/ Grep(i) \/ Backup(i) \/ AppendSection(i)
        \/ Trust(i) \/ Sync(i) \/ Repair(i) \/ Retry(i) \/ Kill(i)

-----------------------------------------------------------------------------
\* Outside the program.  The user's editor leaves the file alone while a
\* script is at work on it.
Release ==
    /\ upstream < MaxVersion
    /\ upstream' = upstream + 1
    /\ UNCHANGED <<conf, backups, key, known, longIds, synced, script, overlap>>

CommentOut ==
    /\ \A i \in Scripts : ~ Active(i)
    /\ \E n \in LinesOf(conf, GrepMatches) : conf' = [conf EXCEPT ![n].lead = "comment"]
    /\ UNCHANGED <<backups, key, known, longIds, upstream, synced, script, overlap>>

RefreshDatabases ==
    /\ PacmanReads(conf) /\ key = "trusted"
    /\ synced' = upstream
    /\ UNCHANGED <<conf, backups, key, known, longIds, upstream, script, overlap>>

RepoInit ==
    /\ \E m \in Machines :
          conf = m.conf /\ key = m.key /\ known = m.known /\ longIds = m.longIds
    /\ backups = {}
    /\ upstream = 1
    /\ synced \in {0, 1}
    /\ synced > 0 => PacmanReads(conf)
    /\ synced > 0 => key = "trusted"
    /\ script = [i \in Scripts |-> Idle]
    /\ overlap = FALSE

-----------------------------------------------------------------------------
\* The script looks before it appends: however often it is run, retried or
\* killed, the file has one section for the repository, unless two runs
\* overlapped (repo_add.sh:220, the grep before the append).
SectionOnce == ~ overlap => Cardinality(LinesOf(conf, GrepMatches)) <= 1

\* The file grows only when a copy of what it held before has been kept
\* (repo_add.sh:246).
BackupFirst == [][Len(conf') > Len(conf) => overlap \/ conf \in backups]_conf

\* A run ends in failure only when something outside failed it, when the key is
\* one that nobody can sign, or when the key was there untrusted, is not the one
\* the script names, and gpg lists no long IDs: from an absent key, and from an
\* untrusted one that it names, the script repairs every refresh, through both
\* of its attempts (repo_add.sh:136-217).
FailsWithCause ==
    \A i \in Scripts :
        script[i].rc # 0 => \/ script[i].hindered
                            \/ key = "bad"
                            \/ script[i].said = "trust" /\ ~ known /\ ~ longIds
=============================================================================
