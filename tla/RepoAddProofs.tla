----------------------------- MODULE RepoAddProofs -----------------------------
(***************************************************************************)
(* repo_add.sh proved for any number of runs of it, any configuration file *)
(* and keyring to start with, and any number of releases.  That a failure  *)
(* has a cause rests on what a run knows of the key: its complaint and its *)
(* repairs tell what state the key is in.                                  *)
(***************************************************************************)
EXTENDS RepoAdd, FiniteSetTheorems, SequenceTheorems, TLAPS

USE RepoAssumption

\* The steps of a system the script is part of (GatedInstall is one).
RepoNext ==
    \/ ScriptStep \/ Release \/ CommentOut \/ RefreshDatabases
    \/ \E i \in Scripts : Begin(i)

RepoSpec == RepoInit /\ [][RepoNext]_repoVars

-----------------------------------------------------------------------------
Matches(c) == {i \in DOMAIN c : GrepMatches(c[i])}

Places == {"idle", "grep", "backup", "append", "trust", "sync", "repair", "retry", "ended"}

Rings == {"absent", "present", "trusted", "bad"}
Says == {"none", "key", "trust", "other"}
Runs == [pc : Places, hindered : BOOLEAN, said : Says, rc : {0, 1}]

RepoTypeOK ==
    /\ conf \in Seq(Lines) /\ backups \subseteq Seq(Lines)
    /\ key \in Rings
    /\ known \in BOOLEAN /\ longIds \in BOOLEAN /\ overlap \in BOOLEAN
    /\ upstream \in 1..MaxVersion /\ synced \in 0..upstream
    /\ script \in [Scripts -> Runs]

\* While no two runs overlapped there is one at work at most, and from its look
\* at the file until it appends the file is the one it saw and kept.
OneAtWork == ~ overlap => \A i, j \in Scripts : Active(i) /\ Active(j) => i = j
SeenBare ==
    ~ overlap => \A i \in Scripts :
                     script[i].pc \in {"backup", "append"} => Matches(conf) = {}
SeenKept ==
    ~ overlap => \A i \in Scripts : script[i].pc = "append" => conf \in backups

\* What a run knows of the key, when nothing failed under it.  At its second
\* refresh the key is trusted; the first complaint was of the key only if it was
\* absent or is bad, of the signer only if it was there, of neither only if it is
\* bad; and after REPO_KEY was fetched and signed it is trusted, or bad.
Working == {"sync", "repair", "retry"}

KeyKnown(s, k) ==
    /\ s.pc # "ended" => s.rc = 0
    /\ s.pc = "retry" => k = "trusted"
    /\ s.said = "trust" => k \in {"present", "trusted"}
    /\ (s.said = "trust" /\ known) => s.hindered
    /\ (s.said = "other" /\ ~ s.hindered) => k = "bad"
    /\ (s.pc \in Working /\ known /\ ~ s.hindered) => k \in {"trusted", "bad"}
    /\ s.rc # 0 => \/ s.hindered
                   \/ k = "bad"
                   \/ s.said = "trust" /\ ~ known /\ ~ longIds

KeysKnown == \A i \in Scripts : KeyKnown(script[i], key)

RepoInv ==
    /\ RepoTypeOK /\ OneAtWork /\ SeenBare /\ SeenKept /\ KeysKnown
    /\ SectionOnce

-----------------------------------------------------------------------------
LEMMA MatchesOf == \A c : LinesOf(c, GrepMatches) = Matches(c)
BY DEF LinesOf, Matches

LEMMA SectionOnceMeans == SectionOnce <=> (~ overlap => Cardinality(Matches(conf)) <= 1)
BY DEF SectionOnce, LinesOf, Matches

LEMMA MatchesFinite ==
    ASSUME NEW c \in Seq(Lines)
    PROVE  IsFiniteSet(Matches(c)) /\ Cardinality(Matches(c)) \in Nat
<1>1. IsFiniteSet(1..Len(c))
  BY FS_Interval
<1>2. Matches(c) \subseteq 1..Len(c)
  BY DEF Matches
<1> QED
  BY <1>1, <1>2, FS_Subset, FS_CardinalityType

LEMMA AppendedOnce ==
    ASSUME NEW c \in Seq(Lines), Matches(c) = {}
    PROVE  Cardinality(Matches(Append(c, Header))) <= 1
<1>1. Matches(Append(c, Header)) \subseteq {Len(c) + 1}
  BY DEF Matches
<1>2. Cardinality({Len(c) + 1}) = 1 /\ IsFiniteSet({Len(c) + 1})
  BY FS_Singleton
<1> QED
  BY <1>1, <1>2, FS_Subset

LEMMA CommentedIn ==
    ASSUME NEW c \in Seq(Lines), NEW n \in DOMAIN c
    PROVE  [c EXCEPT ![n].lead = "comment"] \in Seq(Lines)
<1>1. c[n] \in Lines
  BY ElementOfSeq
<1>2. [c[n] EXCEPT !.lead = "comment"] \in Lines
  BY <1>1 DEF Lines
<1> QED
  BY <1>2, ExceptSeq

LEMMA CommentedOut ==
    ASSUME NEW c \in Seq(Lines), NEW n \in DOMAIN c, Cardinality(Matches(c)) <= 1
    PROVE  Cardinality(Matches([c EXCEPT ![n].lead = "comment"])) <= 1
<1> DEFINE d == [c EXCEPT ![n].lead = "comment"]
<1>1. d \in Seq(Lines)
  BY CommentedIn
<1>2. Matches(d) \subseteq Matches(c)
  BY DEF Matches, GrepMatches, Lines
<1>3. Cardinality(Matches(d)) <= Cardinality(Matches(c))
  BY <1>2, MatchesFinite, FS_Subset
<1> QED
  BY <1>1, <1>3, MatchesFinite

\* What becomes of a key: one that is trusted or bad stays so, none turns bad,
\* and none leaves the keyring.
KeyLater(k, m) ==
    /\ k \in {"trusted", "bad"} => m = k
    /\ k = "present" => m \in {"present", "trusted"}
    /\ m = "bad" => k = "bad"

LEMMA KnownLater ==
    ASSUME NEW s, NEW k, NEW m, KeyKnown(s, k), KeyLater(k, m)
    PROVE  KeyKnown(s, m)
BY DEF KeyKnown, KeyLater

LEMMA FetchedLater ==
    ASSUME NEW k \in Rings, NEW got \in BOOLEAN, NEW signed \in BOOLEAN
    PROVE  /\ Sign(Fetch(k, got), signed) \in Rings
           /\ KeyLater(k, Sign(Fetch(k, got), signed))
           /\ (got /\ signed /\ k # "bad") => Sign(Fetch(k, got), signed) = "trusted"
BY DEF Fetch, Sign, KeyLater, Rings

LEMMA SignedLater ==
    ASSUME NEW k \in Rings, NEW signed \in BOOLEAN
    PROVE  /\ Sign(k, signed) \in Rings
           /\ KeyLater(k, Sign(k, signed))
           /\ (signed /\ k \in {"present", "trusted"}) => Sign(k, signed) = "trusted"
BY DEF Sign, KeyLater, Rings

LEMMA SameKey == \A k : KeyLater(k, k)
BY DEF KeyLater

\* The failure of a command that set -e looks at.
FailedRun(s) == [s EXCEPT !.pc = "ended", !.rc = 1, !.hindered = TRUE]

LEMMA FailsMeans ==
    ASSUME RepoTypeOK, NEW i \in Scripts, NEW from, Fails(i, from)
    PROVE  /\ script' = [script EXCEPT ![i] = FailedRun(script[i])]
           /\ FailedRun(script[i]) \in Runs
           /\ FailedRun(script[i]).pc = "ended" /\ FailedRun(script[i]).hindered
           /\ FailedRun(script[i]).said = script[i].said
<1>1. script[i] \in Runs
  BY DEF RepoTypeOK
<1>2. Ended(1, Hindered(script[i], TRUE)) = FailedRun(script[i])
  BY <1>1 DEF Ended, Hindered, FailedRun, Runs
<1> QED
  BY <1>1, <1>2 DEF Fails, FailedRun, Runs, Places

-----------------------------------------------------------------------------
LEMMA RepoInitInv == RepoInit => RepoInv
<1> SUFFICES ASSUME RepoInit PROVE RepoInv
  OBVIOUS
<1>1. RepoTypeOK
  <2>1. conf \in Seq(Lines) /\ backups \subseteq Seq(Lines)
    BY ConfsAssumption DEF RepoInit
  <2>2. key \in Rings /\ known \in BOOLEAN /\ longIds \in BOOLEAN
    BY RepoAssumption DEF RepoInit, Rings
  <2>5. overlap \in BOOLEAN
    BY DEF RepoInit
  <2>3. upstream \in 1..MaxVersion /\ synced \in 0..upstream
    <3>1. MaxVersion \in Nat /\ MaxVersion # 0
      BY RepoAssumption
    <3>2. upstream = 1 /\ synced \in {0, 1}
      BY DEF RepoInit
    <3> QED
      BY <3>1, <3>2
  <2>4. script \in [Scripts -> Runs]
    BY DEF RepoInit, Idle, Places, Runs, Says
  <2> QED
    BY <2>1, <2>2, <2>3, <2>4, <2>5 DEF RepoTypeOK
<1>2. SectionOnce
  BY ConfsAssumption DEF RepoInit, SectionOnce
<1>3. OneAtWork /\ SeenBare /\ SeenKept /\ KeysKnown
  BY DEF RepoInit, OneAtWork, SeenBare, SeenKept, KeysKnown, KeyKnown, Working, Idle, Active
<1> QED
  BY <1>1, <1>2, <1>3 DEF RepoInv

\* A run's step leaves what the others know of the key.
LEMMA KnownAfterStep ==
    ASSUME KeysKnown, NEW i \in Scripts, UNCHANGED <<known, longIds>>, KeyLater(key, key'),
           \A j \in Scripts \ {i} : script'[j] = script[j],
           KeyKnown(script[i], key)'
    PROVE  KeysKnown'
<1> SUFFICES ASSUME NEW j \in Scripts PROVE KeyKnown(script[j], key)'
  BY DEF KeysKnown
<1>1. CASE j = i
  BY <1>1
<1>2. CASE j # i
  <2>1. KeyKnown(script[j], key)
    BY DEF KeysKnown
  <2>2. KeyKnown(script[j], key')
    BY <2>1, KnownLater
  <2>3. script'[j] = script[j]
    BY <1>2
  <2> QED
    BY <2>2, <2>3 DEF KeyKnown
<1> QED
  BY <1>1, <1>2

\* A step of a run that leaves the file, its copies and the overlap alone, and
\* takes the run neither into an append nor to an unexplained failure.
LEMMA QuietRunStep ==
    ASSUME RepoInv, RepoTypeOK', NEW i \in Scripts, Active(i),
           UNCHANGED <<conf, backups, overlap, known, longIds>>,
           \A j \in Scripts \ {i} : script'[j] = script[j],
           script'[i].pc \notin {"idle", "backup", "append"},
           KeyLater(key, key'), KeyKnown(script[i], key)'
    PROVE  RepoInv'
<1>1. OneAtWork'
  BY DEF RepoInv, OneAtWork, Active
<1>2. SeenBare' /\ SeenKept'
  BY DEF RepoInv, SeenBare, SeenKept
<1>3. KeysKnown'
  BY KnownAfterStep DEF RepoInv
<1>4. SectionOnce'
  BY SectionOnceMeans DEF RepoInv, SectionOnce
<1> QED
  BY <1>1, <1>2, <1>3, <1>4 DEF RepoInv

LEMMA GrepInv == ASSUME RepoInv, NEW i \in Scripts, Grep(i) PROVE RepoInv'
<1>t. RepoTypeOK /\ KeyKnown(script[i], key) /\ SectionOnce
  BY DEF RepoInv, KeysKnown
<1>s. script[i] \in Runs /\ DOMAIN script = Scripts
  BY <1>t DEF RepoTypeOK
<1>u. /\ UNCHANGED <<conf, backups, key, known, longIds, upstream, synced, overlap>>
      /\ script[i].pc = "grep"
  BY DEF Grep, Step
<1>1. RepoTypeOK'
  BY <1>t DEF Grep, Step, RepoTypeOK, Places, Runs
<1>2. /\ script'[i].pc \in {"trust", "backup"}
      /\ script'[i].said = script[i].said /\ script'[i].hindered = script[i].hindered
      /\ script'[i].rc = script[i].rc
      /\ \A j \in Scripts \ {i} : script'[j] = script[j]
  BY <1>s DEF Grep, Step, Runs
<1>3. KeyKnown(script[i], key)'
  BY <1>t, <1>u, <1>2 DEF KeyKnown, Working
<1>4. CASE AlreadyEnabled(conf)
  <2>1. script'[i].pc = "trust" /\ Active(i)
    BY <1>4, <1>s, <1>u DEF Grep, Step, Active, Runs
  <2> QED
    BY <1>u, <1>1, <1>2, <1>3, <2>1, SameKey, QuietRunStep
<1>5. CASE ~ AlreadyEnabled(conf)
  <2>1. Matches(conf) = {}
    BY <1>5 DEF AlreadyEnabled, LinesOf, Matches
  <2>2. script'[i].pc = "backup" /\ Active(i)
    BY <1>5, <1>s, <1>u DEF Grep, Step, Active, Runs
  <2>3. OneAtWork'
    BY <1>u, <1>2, <2>2 DEF RepoInv, OneAtWork, Active
  <2>4. SeenBare' /\ SeenKept'
    BY <1>u, <1>2, <2>1, <2>2 DEF RepoInv, SeenBare, SeenKept
  <2>5. KeysKnown'
    BY <1>u, <1>2, <1>3, SameKey, KnownAfterStep DEF RepoInv
  <2>6. SectionOnce'
    BY <1>t, <1>u, SectionOnceMeans DEF SectionOnce
  <2> QED
    BY <1>1, <2>3, <2>4, <2>5, <2>6 DEF RepoInv
<1> QED
  BY <1>4, <1>5

\* A run that a command's failure ends.
LEMMA FailsInv ==
    ASSUME RepoInv, NEW i \in Scripts, Active(i), NEW from, Fails(i, from),
           UNCHANGED <<conf, backups, key, known, longIds, upstream, synced, overlap>>
    PROVE  RepoInv'
<1>t. RepoTypeOK /\ KeyKnown(script[i], key)
  BY DEF RepoInv, KeysKnown
<1>1. /\ script' = [script EXCEPT ![i] = FailedRun(script[i])]
      /\ FailedRun(script[i]) \in Runs
      /\ FailedRun(script[i]).pc = "ended" /\ FailedRun(script[i]).hindered
      /\ FailedRun(script[i]).said = script[i].said
  BY <1>t, FailsMeans
<1> HIDE DEF FailedRun
<1>2. RepoTypeOK'
  BY <1>t, <1>1 DEF RepoTypeOK
<1>3. script'[i] = FailedRun(script[i]) /\ \A j \in Scripts \ {i} : script'[j] = script[j]
  BY <1>t, <1>1 DEF RepoTypeOK
<1>4. KeyKnown(script[i], key)'
  BY <1>t, <1>1, <1>3 DEF KeyKnown, Working
<1> QED
  BY <1>1, <1>2, <1>3, <1>4, SameKey, QuietRunStep

LEMMA BackupInv == ASSUME RepoInv, NEW i \in Scripts, Backup(i) PROVE RepoInv'
<1>t. RepoTypeOK /\ KeyKnown(script[i], key) /\ SectionOnce
  BY DEF RepoInv, KeysKnown
<1>s. script[i] \in Runs /\ DOMAIN script = Scripts
  BY <1>t DEF RepoTypeOK
<1>u. UNCHANGED <<conf, key, known, longIds, upstream, synced, overlap>>
  BY DEF Backup
<1>1. CASE Fails(i, "backup") /\ UNCHANGED backups
  <2>1. Active(i)
    BY <1>1 DEF Fails, Active
  <2> QED
    BY <1>u, <1>1, <2>1, FailsInv
<1>2. CASE Step(i, "backup", "append") /\ backups' = backups \cup {conf}
  <2>1. script[i].pc = "backup" /\ script' = [script EXCEPT ![i].pc = "append"]
    BY <1>2 DEF Step
  <2>2. RepoTypeOK'
    BY <1>t, <1>u, <1>2, <2>1 DEF RepoTypeOK, Places, Runs
  <2>3. /\ script'[i].pc = "append"
        /\ script'[i].said = script[i].said /\ script'[i].hindered = script[i].hindered
        /\ script'[i].rc = script[i].rc
        /\ \A j \in Scripts \ {i} : script'[j] = script[j]
    BY <1>s, <2>1 DEF Runs
  <2>4. OneAtWork'
    BY <1>u, <2>1, <2>3 DEF RepoInv, OneAtWork, Active
  <2>5. SeenBare' /\ SeenKept'
    BY <1>u, <1>2, <2>1, <2>3 DEF RepoInv, SeenBare, SeenKept
  <2>6. KeyKnown(script[i], key)'
    BY <1>t, <1>u, <2>1, <2>3 DEF KeyKnown, Working
  <2>7. KeysKnown'
    BY <1>u, <2>3, <2>6, SameKey, KnownAfterStep DEF RepoInv
  <2>8. SectionOnce'
    BY <1>t, <1>u, SectionOnceMeans DEF SectionOnce
  <2> QED
    BY <2>2, <2>4, <2>5, <2>7, <2>8 DEF RepoInv
<1> QED
  BY <1>1, <1>2 DEF Backup

LEMMA AppendInv == ASSUME RepoInv, NEW i \in Scripts, AppendSection(i) PROVE RepoInv'
<1>t. RepoTypeOK /\ KeyKnown(script[i], key) /\ SectionOnce
  BY DEF RepoInv, KeysKnown
<1>s. script[i] \in Runs /\ DOMAIN script = Scripts
  BY <1>t DEF RepoTypeOK
<1>u. UNCHANGED <<backups, key, known, longIds, upstream, synced, overlap>>
  BY DEF AppendSection
<1>1. CASE Fails(i, "append") /\ UNCHANGED conf
  <2>1. Active(i)
    BY <1>1 DEF Fails, Active
  <2> QED
    BY <1>u, <1>1, <2>1, FailsInv
<1>2. CASE Step(i, "append", "trust") /\ conf' = Append(conf, Header)
  <2>1. script[i].pc = "append" /\ script' = [script EXCEPT ![i].pc = "trust"]
    BY <1>2 DEF Step
  <2>2. conf' \in Seq(Lines)
    BY <1>t, <1>2 DEF RepoTypeOK, Header, Lines
  <2>3. RepoTypeOK'
    BY <1>t, <1>u, <2>1, <2>2 DEF RepoTypeOK, Places, Runs
  <2>4. /\ script'[i].pc = "trust"
        /\ script'[i].said = script[i].said /\ script'[i].hindered = script[i].hindered
        /\ script'[i].rc = script[i].rc
        /\ \A j \in Scripts \ {i} : script'[j] = script[j]
    BY <1>s, <2>1 DEF Runs
  \* No other run stands between its look and its append.
  <2>5. ~ overlap => \A j \in Scripts : script'[j].pc \notin {"backup", "append"}
    BY <2>1, <2>4 DEF RepoInv, OneAtWork, Active
  <2>6. OneAtWork'
    BY <1>u, <2>1, <2>4 DEF RepoInv, OneAtWork, Active
  <2>7. SeenBare' /\ SeenKept'
    BY <1>u, <2>5 DEF SeenBare, SeenKept
  <2>8. KeyKnown(script[i], key)'
    BY <1>t, <1>u, <2>1, <2>4 DEF KeyKnown, Working
  <2>9. KeysKnown'
    BY <1>u, <2>4, <2>8, SameKey, KnownAfterStep DEF RepoInv
  <2>10. SectionOnce'
    <3> SUFFICES ASSUME ~ overlap
                 PROVE  Cardinality(Matches(Append(conf, Header))) <= 1
      BY <1>u, <1>2 DEF SectionOnce, LinesOf, Matches
    <3>1. Matches(conf) = {}
      BY <2>1 DEF RepoInv, SeenBare
    <3> QED
      BY <1>t, <3>1, AppendedOnce DEF RepoTypeOK
  <2> QED
    BY <2>3, <2>6, <2>7, <2>9, <2>10 DEF RepoInv
<1> QED
  BY <1>1, <1>2 DEF AppendSection

\* A run's step after the append: it and the keyring change, and the database.
LEMMA RunUpdate ==
    ASSUME RepoInv, NEW i \in Scripts, Active(i), NEW r \in Runs,
           script' = [script EXCEPT ![i] = r],
           UNCHANGED <<conf, backups, known, longIds, upstream, overlap>>,
           key' \in Rings, KeyLater(key, key'), synced' \in 0..upstream,
           r.pc \notin {"idle", "backup", "append"}, KeyKnown(r, key')
    PROVE  RepoInv'
<1>1. RepoTypeOK'
  BY DEF RepoInv, RepoTypeOK
<1>2. script'[i] = r /\ \A j \in Scripts \ {i} : script'[j] = script[j]
  BY DEF RepoInv, RepoTypeOK
<1>3. KeyKnown(script[i], key)'
  BY <1>2 DEF KeyKnown
<1> QED
  BY <1>1, <1>2, <1>3, QuietRunStep

LEMMA TrustInv == ASSUME RepoInv, NEW i \in Scripts, Trust(i) PROVE RepoInv'
<1> DEFINE s == script[i]
<1>t. RepoTypeOK /\ KeyKnown(s, key)
  BY DEF RepoInv, KeysKnown
<1>s. s \in Runs /\ key \in Rings /\ synced \in 0..upstream /\ known \in BOOLEAN
  BY <1>t DEF RepoTypeOK
<1>1. PICK got \in BOOLEAN, signed \in BOOLEAN :
          /\ key' = IF known THEN Sign(Fetch(key, got), signed) ELSE key
          /\ script' = [script EXCEPT ![i] = Hindered([@ EXCEPT !.pc = "sync"],
                                                     known /\ ~ (got /\ signed))]
  BY DEF Trust
<1>u. /\ UNCHANGED <<conf, backups, known, longIds, upstream, synced, overlap>>
      /\ s.pc = "trust" /\ Active(i)
  BY DEF Trust, Active
<1> DEFINE failed == known /\ ~ (got /\ signed)
           r == [s EXCEPT !.pc = "sync", !.hindered = s.hindered \/ failed]
<1>2. failed \in BOOLEAN
  BY <1>s
<1>3. [s EXCEPT !.pc = "sync"] \in Runs
  BY <1>s DEF Runs, Places
<1>4. Hindered([s EXCEPT !.pc = "sync"], failed) = r
  BY <1>s DEF Hindered, Runs
<1>5. script' = [script EXCEPT ![i] = r]
  BY <1>1, <1>4, <1>t DEF RepoTypeOK
<1>6. r \in Runs
  BY <1>2, <1>s DEF Runs, Places
<1>7. key' \in Rings /\ KeyLater(key, key')
  BY <1>1, <1>s, FetchedLater, SameKey
<1>8. (known /\ ~ failed) => key' \in {"trusted", "bad"}
  BY <1>1, <1>s, FetchedLater DEF KeyLater
<1>9. /\ r.pc = "sync" /\ r.said = s.said /\ r.rc = s.rc
      /\ r.hindered = (s.hindered \/ failed)
  BY <1>s DEF Runs
<1> HIDE DEF r, failed
<1>10. KeyKnown(r, key')
  BY <1>t, <1>u, <1>7, <1>8, <1>9 DEF KeyKnown, KeyLater, Working
<1> QED
  BY <1>s, <1>u, <1>5, <1>6, <1>7, <1>9, <1>10, RunUpdate

LEMMA SyncedFits ==
    ASSUME RepoTypeOK, NEW able, Refreshed(able)
    PROVE  synced' \in 0..upstream
BY DEF RepoTypeOK, Refreshed

LEMMA SyncInv == ASSUME RepoInv, NEW i \in Scripts, Sync(i) PROVE RepoInv'
<1> DEFINE s == script[i]
<1>t. RepoTypeOK /\ KeyKnown(s, key)
  BY DEF RepoInv, KeysKnown
<1>s. s \in Runs /\ key \in Rings
  BY <1>t DEF RepoTypeOK
<1>u. /\ UNCHANGED <<conf, backups, key, known, longIds, upstream, overlap>>
      /\ s.pc = "sync" /\ Active(i)
  BY DEF Sync, Active
<1>1. PICK able \in BOOLEAN :
          /\ IF Refreshes(able)
             THEN script' = [script EXCEPT ![i] = Ended(0, @)]
             ELSE \E complaint \in Complaints(able) :
                     script' = [script EXCEPT ![i] =
                        Hindered([@ EXCEPT !.pc = "repair", !.said = complaint], ~ able)]
          /\ Refreshed(able)
  BY DEF Sync
<1>2. synced' \in 0..upstream
  BY <1>t, <1>1, SyncedFits
<1>3. CASE Refreshes(able)
  <2> DEFINE r == [s EXCEPT !.pc = "ended", !.rc = 0]
  <2>1. script' = [script EXCEPT ![i] = r]
    BY <1>t, <1>1, <1>3 DEF RepoTypeOK, Ended
  <2>2. r \in Runs
    BY <1>s DEF Runs, Places
  <2>3. r.pc = "ended" /\ r.said = s.said /\ r.rc = 0 /\ r.hindered = s.hindered
    BY <1>s DEF Runs
  <2> HIDE DEF r
  <2>4. KeyKnown(r, key')
    BY <1>t, <1>u, <2>3 DEF KeyKnown, Working
  <2> QED
    BY <1>s, <1>u, <1>2, <2>1, <2>2, <2>3, <2>4, SameKey, RunUpdate
<1>4. CASE ~ Refreshes(able)
  <2>1. PICK complaint \in Complaints(able) :
            script' = [script EXCEPT ![i] =
                Hindered([@ EXCEPT !.pc = "repair", !.said = complaint], ~ able)]
    BY <1>1, <1>4
  <2> DEFINE r == [s EXCEPT !.pc = "repair", !.said = complaint,
                            !.hindered = s.hindered \/ ~ able]
  \* An able pacman complains of the key the keyring has.
  <2>2. /\ complaint \in {"key", "trust", "other"}
        /\ complaint = "trust" => key = "present"
        /\ complaint = "other" => ~ able \/ key = "bad"
    BY <1>s, <2>1 DEF Complaints, OfTheKey, Rings
  <2>3. Hindered([s EXCEPT !.pc = "repair", !.said = complaint], ~ able) = r
    BY <1>s DEF Hindered, Runs
  <2>4. script' = [script EXCEPT ![i] = r]
    BY <1>t, <2>1, <2>3 DEF RepoTypeOK
  <2>5. r \in Runs
    BY <1>s, <2>2 DEF Runs, Places, Says
  <2>6. /\ r.pc = "repair" /\ r.said = complaint /\ r.rc = s.rc
        /\ r.hindered = (s.hindered \/ ~ able)
    BY <1>s DEF Runs
  <2> HIDE DEF r
  <2>7. KeyKnown(r, key')
    BY <1>t, <1>u, <2>2, <2>6 DEF KeyKnown, Working
  <2> QED
    BY <1>s, <1>u, <1>2, <2>4, <2>5, <2>6, <2>7, SameKey, RunUpdate
<1> QED
  BY <1>3, <1>4

LEMMA ImportInv == ASSUME RepoInv, NEW i \in Scripts, ImportKey(i) PROVE RepoInv'
<1> DEFINE s == script[i]
<1>t. RepoTypeOK /\ KeyKnown(s, key)
  BY DEF RepoInv, KeysKnown
<1>s. s \in Runs /\ key \in Rings /\ synced \in 0..upstream
  BY <1>t DEF RepoTypeOK
<1>1. PICK got \in BOOLEAN, signed \in BOOLEAN :
          /\ key' = IF got THEN Sign(Fetch(key, got), signed) ELSE key
          /\ script' = [script EXCEPT ![i] =
                 AfterRepair(@, got /\ signed /\ key # "bad", ~ (got /\ signed))]
  BY DEF ImportKey
<1>u. /\ UNCHANGED <<conf, backups, known, longIds, upstream, synced, overlap>>
      /\ s.pc = "repair" /\ s.said = "key" /\ Active(i)
  BY DEF ImportKey, Active
<1> DEFINE ok == got /\ signed /\ key # "bad"
           failed == ~ (got /\ signed)
<1> HIDE DEF ok, failed
<1> DEFINE r == AfterRepair(s, ok, failed)
<1>2. /\ r \in Runs /\ r.said = s.said
      /\ ok => r.pc = "retry" /\ r.rc = s.rc /\ r.hindered = s.hindered
      /\ ~ ok => r.pc = "ended" /\ r.rc = 1 /\ r.hindered = (s.hindered \/ failed)
  <2>1. ok => r = [s EXCEPT !.pc = "retry"]
    BY DEF AfterRepair
  <2>2. ~ ok => r = [s EXCEPT !.hindered = s.hindered \/ failed, !.pc = "ended", !.rc = 1]
    BY DEF AfterRepair, Ended, Hindered
  <2>3. (s.hindered \/ failed) \in BOOLEAN
    OBVIOUS
  <2> HIDE DEF r
  <2>4. CASE ok
    BY <1>s, <2>1, <2>4 DEF Runs, Places
  <2>5. CASE ~ ok
    BY <1>s, <2>2, <2>3, <2>5 DEF Runs, Places
  <2> QED
    BY <2>4, <2>5
<1> USE DEF ok, failed
<1>3. script' = [script EXCEPT ![i] = r]
  BY <1>t, <1>1 DEF RepoTypeOK
<1>4. key' \in Rings /\ KeyLater(key, key') /\ (ok => key' = "trusted")
  BY <1>1, <1>s, FetchedLater, SameKey
<1>5. KeyKnown(r, key')
  <2> HIDE DEF r
  <2>1. CASE ok
    BY <1>t, <1>u, <1>2, <1>4, <2>1 DEF KeyKnown, Working
  <2>2. CASE ~ ok
    <3>1. ~ failed => key' = "bad"
      BY <1>4, <2>2 DEF KeyLater
    <3> QED
      BY <1>u, <1>2, <2>2, <3>1 DEF KeyKnown, Working
  <2> QED
    BY <2>1, <2>2
<1> HIDE DEF r
<1>6. r.pc \in {"retry", "ended"}
  BY <1>2
<1> QED
  BY <1>s, <1>u, <1>2, <1>3, <1>4, <1>5, <1>6, RunUpdate

LEMMA SignerInv == ASSUME RepoInv, NEW i \in Scripts, SignSigner(i) PROVE RepoInv'
<1> DEFINE s == script[i]
<1>t. RepoTypeOK /\ KeyKnown(s, key)
  BY DEF RepoInv, KeysKnown
<1>s. s \in Runs /\ key \in Rings /\ synced \in 0..upstream /\ longIds \in BOOLEAN
  BY <1>t DEF RepoTypeOK
<1>1. PICK signed \in BOOLEAN :
          /\ key' = IF longIds THEN Sign(key, signed) ELSE key
          /\ script' = [script EXCEPT ![i] =
                 AfterRepair(@, longIds /\ signed, longIds /\ ~ signed)]
  BY DEF SignSigner
<1>u. /\ UNCHANGED <<conf, backups, known, longIds, upstream, synced, overlap>>
      /\ s.pc = "repair" /\ s.said = "trust" /\ Active(i)
  BY DEF SignSigner, Active
<1> DEFINE ok == longIds /\ signed
           failed == longIds /\ ~ signed
<1> HIDE DEF ok, failed
<1> DEFINE r == AfterRepair(s, ok, failed)
<1>2. /\ r \in Runs /\ r.said = s.said
      /\ ok => r.pc = "retry" /\ r.rc = s.rc /\ r.hindered = s.hindered
      /\ ~ ok => r.pc = "ended" /\ r.rc = 1 /\ r.hindered = (s.hindered \/ failed)
  <2>1. ok => r = [s EXCEPT !.pc = "retry"]
    BY DEF AfterRepair
  <2>2. ~ ok => r = [s EXCEPT !.hindered = s.hindered \/ failed, !.pc = "ended", !.rc = 1]
    BY DEF AfterRepair, Ended, Hindered
  <2>3. (s.hindered \/ failed) \in BOOLEAN
    OBVIOUS
  <2> HIDE DEF r
  <2>4. CASE ok
    BY <1>s, <2>1, <2>4 DEF Runs, Places
  <2>5. CASE ~ ok
    BY <1>s, <2>2, <2>3, <2>5 DEF Runs, Places
  <2> QED
    BY <2>4, <2>5
<1> USE DEF ok, failed
<1>3. script' = [script EXCEPT ![i] = r]
  BY <1>t, <1>1 DEF RepoTypeOK
\* The signer's key was there, and none leaves the keyring.
<1>4. key' \in Rings /\ KeyLater(key, key') /\ (ok => key' = "trusted")
  BY <1>1, <1>s, <1>t, <1>u, SignedLater, SameKey DEF KeyKnown
<1>5. KeyKnown(r, key')
  <2> HIDE DEF r
  <2>1. key' \in {"present", "trusted"} /\ (known => s.hindered)
    BY <1>4, <1>t, <1>u DEF KeyKnown, KeyLater
  <2>2. CASE ok
    BY <1>t, <1>u, <1>2, <1>4, <2>1, <2>2 DEF KeyKnown, Working
  <2>3. CASE ~ ok
    BY <1>u, <1>2, <2>1, <2>3 DEF KeyKnown, Working
  <2> QED
    BY <2>2, <2>3
<1> HIDE DEF r
<1>6. r.pc \in {"retry", "ended"}
  BY <1>2
<1> QED
  BY <1>s, <1>u, <1>2, <1>3, <1>4, <1>5, <1>6, RunUpdate

LEMMA GiveUpInv == ASSUME RepoInv, NEW i \in Scripts, GiveUp(i) PROVE RepoInv'
<1> DEFINE s == script[i]
           r == [s EXCEPT !.pc = "ended", !.rc = 1]
<1>t. RepoTypeOK /\ KeyKnown(s, key)
  BY DEF RepoInv, KeysKnown
<1>s. s \in Runs /\ key \in Rings /\ synced \in 0..upstream
  BY <1>t DEF RepoTypeOK
<1>u. /\ UNCHANGED <<conf, backups, key, known, longIds, upstream, synced, overlap>>
      /\ s.pc = "repair" /\ s.said = "other" /\ Active(i)
  BY DEF GiveUp, Active
<1>1. script' = [script EXCEPT ![i] = r]
  BY <1>t DEF GiveUp, RepoTypeOK, Ended
<1>2. r \in Runs
  BY <1>s DEF Runs, Places
<1>3. r.pc = "ended" /\ r.said = "other" /\ r.hindered = s.hindered
  BY <1>s, <1>u DEF Runs
<1> HIDE DEF r
<1>4. KeyKnown(r, key')
  BY <1>t, <1>u, <1>3 DEF KeyKnown, Working
<1> QED
  BY <1>s, <1>u, <1>1, <1>2, <1>3, <1>4, SameKey, RunUpdate

LEMMA RetryInv == ASSUME RepoInv, NEW i \in Scripts, Retry(i) PROVE RepoInv'
<1> DEFINE s == script[i]
<1>t. RepoTypeOK /\ KeyKnown(s, key)
  BY DEF RepoInv, KeysKnown
<1>s. s \in Runs /\ key \in Rings
  BY <1>t DEF RepoTypeOK
<1>u. /\ UNCHANGED <<conf, backups, key, known, longIds, upstream, overlap>>
      /\ s.pc = "retry" /\ Active(i)
  BY DEF Retry, Active
<1>1. PICK able \in BOOLEAN :
          /\ script' = [script EXCEPT ![i] =
                 IF Refreshes(able) THEN Ended(0, @) ELSE Ended(1, Hindered(@, ~ able))]
          /\ Refreshed(able)
  BY DEF Retry
<1>2. synced' \in 0..upstream
  BY <1>t, <1>1, SyncedFits
\* The key is trusted: only what is outside is left.
<1>3. ~ Refreshes(able) => ~ able
  BY <1>t, <1>u DEF KeyKnown, Refreshes
<1> DEFINE r == IF Refreshes(able) THEN [s EXCEPT !.pc = "ended", !.rc = 0]
                ELSE [s EXCEPT !.pc = "ended", !.rc = 1, !.hindered = TRUE]
<1>4. Hindered(s, ~ able) = [s EXCEPT !.hindered = s.hindered \/ ~ able]
  BY DEF Hindered
<1>5. script' = [script EXCEPT ![i] = r]
  BY <1>t, <1>s, <1>1, <1>3, <1>4 DEF RepoTypeOK, Ended, Runs
<1>6. r \in Runs
  BY <1>s DEF Runs, Places
<1>7. r.pc = "ended" /\ r.said = s.said /\ (r.rc # 0 => r.hindered)
      /\ (s.hindered => r.hindered)
  BY <1>s DEF Runs
<1> HIDE DEF r
<1>8. KeyKnown(r, key')
  BY <1>t, <1>u, <1>7 DEF KeyKnown, Working
<1> QED
  BY <1>s, <1>u, <1>2, <1>5, <1>6, <1>7, <1>8, SameKey, RunUpdate

LEMMA ScriptStepInv ==
    ASSUME RepoInv, ScriptStep
    PROVE  RepoInv'
<1>1. PICK i \in Scripts : \/ Grep(i) \/ Backup(i) \/ AppendSection(i)
                           \/ Trust(i) \/ Sync(i) \/ Repair(i) \/ Retry(i) \/ Kill(i)
  BY DEF ScriptStep
<1>2. CASE Kill(i)
  BY <1>2, FailsInv DEF Kill
<1> QED
  BY <1>1, <1>2, GrepInv, BackupInv, AppendInv, TrustInv, SyncInv, ImportInv, SignerInv,
     GiveUpInv, RetryInv DEF Repair

LEMMA BeginInv ==
    ASSUME RepoInv, NEW i \in Scripts, Begin(i)
    PROVE  RepoInv'
<1>1. /\ script' = [script EXCEPT ![i] = [Idle EXCEPT !.pc = "grep"]]
      /\ overlap' = (overlap \/ \E j \in Scripts : Active(j))
      /\ UNCHANGED <<conf, backups, key, known, longIds, upstream, synced>>
  BY DEF Begin
<1> DEFINE r == [Idle EXCEPT !.pc = "grep"]
<1>b. /\ r \in Runs
      /\ r.pc = "grep" /\ r.rc = 0 /\ r.said = "none"
  BY DEF Idle, Places, Runs, Says
<1>2. RepoTypeOK'
  <2>1. overlap' \in BOOLEAN
    BY <1>1
  <2>2. script' \in [Scripts -> Runs]
    BY <1>1, <1>b DEF RepoInv, RepoTypeOK
  <2> QED
    BY <1>1, <2>1, <2>2 DEF RepoInv, RepoTypeOK
<1>3. DOMAIN script = Scripts
  BY DEF RepoInv, RepoTypeOK
<1>g. /\ script'[i].pc = "grep" /\ script'[i].rc = 0 /\ script'[i].said = "none"
      /\ \A j \in Scripts \ {i} : script'[j] = script[j]
  BY <1>1, <1>b, <1>3
<1>4. OneAtWork'
  BY <1>1, <1>g DEF OneAtWork, Active
<1>5. SeenBare' /\ SeenKept'
  BY <1>1, <1>g DEF RepoInv, SeenBare, SeenKept
<1>6. KeysKnown'
  <2>1. KeyKnown(script[i], key)'
    BY <1>g DEF KeyKnown, Working
  <2> QED
    BY <1>1, <1>g, <2>1, SameKey, KnownAfterStep DEF RepoInv
<1>7. SectionOnce'
  BY <1>1, SectionOnceMeans DEF RepoInv, SectionOnce
<1> QED
  BY <1>2, <1>4, <1>5, <1>6, <1>7 DEF RepoInv

LEMMA OutsideInv ==
    ASSUME RepoInv, Release \/ CommentOut \/ RefreshDatabases \/ UNCHANGED repoVars
    PROVE  RepoInv'
<1>1. CASE Release
  <2>1. RepoTypeOK'
    <3>1. upstream' \in 1..MaxVersion /\ synced \in 0..upstream'
      BY <1>1 DEF Release, RepoInv, RepoTypeOK
    <3> QED
      BY <1>1, <3>1 DEF Release, RepoInv, RepoTypeOK
  <2>2. OneAtWork' /\ SeenBare' /\ SeenKept'
    BY <1>1 DEF Release, RepoInv, OneAtWork, SeenBare, SeenKept, Active
  <2>3. KeysKnown'
    BY <1>1 DEF Release, RepoInv, KeysKnown, KeyKnown
  <2>4. SectionOnce'
    BY <1>1, SectionOnceMeans DEF Release, RepoInv, SectionOnce
  <2> QED
    BY <2>1, <2>2, <2>3, <2>4 DEF RepoInv
\* No run is at work on the file.
<1>2. CASE CommentOut
  <2>1. PICK n \in DOMAIN conf : conf' = [conf EXCEPT ![n].lead = "comment"]
    BY <1>2 DEF CommentOut, LinesOf
  <2>2. conf' \in Seq(Lines)
    BY <2>1, CommentedIn DEF RepoInv, RepoTypeOK
  <2>3. RepoTypeOK'
    BY <1>2, <2>2 DEF CommentOut, RepoInv, RepoTypeOK
  <2>4. OneAtWork' /\ SeenBare' /\ SeenKept'
    BY <1>2 DEF CommentOut, RepoInv, OneAtWork, SeenBare, SeenKept, Active
  <2>5. KeysKnown'
    BY <1>2 DEF CommentOut, RepoInv, KeysKnown, KeyKnown
  <2>6. SectionOnce'
    <3>1. ~ overlap => Cardinality(Matches(conf)) <= 1
      BY SectionOnceMeans DEF RepoInv
    <3>2. ~ overlap => Cardinality(Matches(conf')) <= 1
      BY <2>1, <3>1, CommentedOut DEF RepoInv, RepoTypeOK
    <3> QED
      BY <1>2, <3>2 DEF CommentOut, SectionOnce, LinesOf, Matches
  <2> QED
    BY <2>3, <2>4, <2>5, <2>6 DEF RepoInv
<1>3. CASE RefreshDatabases
  <2>1. RepoTypeOK'
    <3>1. synced' \in 0..upstream
      BY <1>3 DEF RefreshDatabases, RepoInv, RepoTypeOK
    <3> QED
      BY <1>3, <3>1 DEF RefreshDatabases, RepoInv, RepoTypeOK
  <2>2. OneAtWork' /\ SeenBare' /\ SeenKept'
    BY <1>3 DEF RefreshDatabases, RepoInv, OneAtWork, SeenBare, SeenKept, Active
  <2>3. KeysKnown'
    BY <1>3 DEF RefreshDatabases, RepoInv, KeysKnown, KeyKnown
  <2>4. SectionOnce'
    BY <1>3, SectionOnceMeans DEF RefreshDatabases, RepoInv, SectionOnce
  <2> QED
    BY <2>1, <2>2, <2>3, <2>4 DEF RepoInv
<1>4. CASE UNCHANGED repoVars
  <2>1. RepoTypeOK'
    BY <1>4 DEF repoVars, RepoInv, RepoTypeOK
  <2>2. OneAtWork' /\ SeenBare' /\ SeenKept'
    BY <1>4 DEF repoVars, RepoInv, OneAtWork, SeenBare, SeenKept, Active
  <2>3. KeysKnown'
    BY <1>4 DEF repoVars, RepoInv, KeysKnown, KeyKnown
  <2>4. SectionOnce'
    BY <1>4, SectionOnceMeans DEF repoVars, RepoInv, SectionOnce
  <2> QED
    BY <2>1, <2>2, <2>3, <2>4 DEF RepoInv
<1> QED
  BY <1>1, <1>2, <1>3, <1>4

LEMMA RepoStepInv == RepoInv /\ [RepoNext]_repoVars => RepoInv'
BY ScriptStepInv, BeginInv, OutsideInv DEF RepoNext

-----------------------------------------------------------------------------
\* The file has its section once and its copy before it grows, no two runs are at
\* work unless they overlapped, and the last refresh has a trusted key.
THEOREM RepoInvariant == RepoSpec => []RepoInv
<1>1. RepoInit => RepoInv
  BY RepoInitInv
<1>2. RepoInv /\ [RepoNext]_repoVars => RepoInv'
  BY RepoStepInv
<1> QED
  BY <1>1, <1>2, PTL DEF RepoSpec

\* However often the script is run, retried or killed, the file has one section
\* for the repository, unless two runs overlapped (repo_add.sh:220).
THEOREM SectionStaysOnce == RepoSpec => []SectionOnce
<1>1. RepoInv => SectionOnce
  BY DEF RepoInv
<1> QED
  BY <1>1, RepoInvariant, PTL

\* A run fails only of something outside it, of a key nobody can sign, or of an
\* untrusted key that the script does not name and gpg lists without its long ID
\* (repo_add.sh:136-217).
THEOREM FailureHasCause == RepoSpec => []FailsWithCause
<1>1. RepoInv => FailsWithCause
  BY DEF RepoInv, KeysKnown, KeyKnown, FailsWithCause
<1> QED
  BY <1>1, RepoInvariant, PTL

\* The step that makes the file longer is the append of one run, and the run has
\* kept what the file held (repo_add.sh:246).
LEMMA GrowthIsKept ==
    ASSUME RepoInv, [RepoNext]_repoVars
    PROVE  [Len(conf') > Len(conf) => overlap \/ conf \in backups]_conf
<1> SUFFICES ASSUME Len(conf') > Len(conf), ~ overlap
             PROVE  conf \in backups
  OBVIOUS
<1>1. ASSUME NEW i \in Scripts, AppendSection(i), conf' # conf PROVE conf \in backups
  BY <1>1 DEF AppendSection, Step, RepoInv, SeenKept
<1>2. CASE CommentOut
  <2>1. PICK n \in DOMAIN conf : conf' = [conf EXCEPT ![n].lead = "comment"]
    BY <1>2 DEF CommentOut, LinesOf
  <2>2. conf \in Seq(Lines) /\ conf' \in Seq(Lines) /\ DOMAIN conf' = DOMAIN conf
    BY <2>1, CommentedIn DEF RepoInv, RepoTypeOK
  <2> QED
    BY <2>2
<1>3. CASE UNCHANGED conf
  <2> conf \in Seq(Lines)
    BY DEF RepoInv, RepoTypeOK
  <2> QED
    BY <1>3
<1> QED
  BY <1>1, <1>2, <1>3 DEF RepoNext, ScriptStep, Grep, Backup, Trust, Sync, Repair, ImportKey,
                          SignSigner, GiveUp, Retry, Kill, Release, RefreshDatabases, Begin,
                          repoVars

\* The configuration file grows only by the append of a run that has kept a copy of
\* what the file held (repo_add.sh:246).
THEOREM BackupComesFirst == RepoSpec => BackupFirst
<1>1. RepoInv /\ [RepoNext]_repoVars
      => [Len(conf') > Len(conf) => overlap \/ conf \in backups]_conf
  BY GrowthIsKept
<1> QED
  BY <1>1, RepoInvariant, PTL DEF RepoSpec, BackupFirst
=============================================================================
