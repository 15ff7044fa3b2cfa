-------------------------------- MODULE Pkgbuild --------------------------------
(***************************************************************************)
(* The edits ConfWindow::on_execute makes in a PKGBUILD: the source array  *)
(* that it places above prepare() and the custom package name             *)
(* (conf-window.cpp, utils.cpp).                                           *)
(*                                                                         *)
(* A PKGBUILD is a record: "head" the lines above the line of prepare(),   *)
(* "prep" whether there is such a line, "base" the value of pkgbase.  Of a *)
(* line its kind is kept, and the entry it carries:                        *)
(*    open    source=(  with or without a first entry after it             *)
(*    one     source=("x")                                                 *)
(*    more    source+=(                                                    *)
(*    item    an entry of a multi-line array, double-quoted                *)
(*    last    the last entry with the closing parenthesis glued to it      *)
(*    close   a closing parenthesis alone                                  *)
(*    fopen   a foreign array at column 0, e.g. sha256sums=(               *)
(*    fmore   a foreign array begun otherwise: backup+=(, declare -a x=(    *)
(*    stmt    any other top-level assignment or function at column 0       *)
(*    code    a line that is none of these: fi, export X=..., _die ...     *)
(*    blank                                                                *)
(* A value of pkgbase is a sequence of name pieces; a custom name is one   *)
(* too, PH being the placeholder $pkgbase or ${pkgbase}.                   *)
(***************************************************************************)
EXTENDS Naturals, Sequences, SequencesExt

CONSTANTS
    PH,          \* the placeholder in a custom name
    NoEntry,     \* of a line without an entry
    Patches,     \* entries that end in ".patch"
    BadPieces    \* pieces with a character a package name cannot have

Kinds == {"open", "one", "more", "item", "last", "close", "fopen", "fmore", "stmt", "code", "blank"}
Line(k, e) == [k |-> k, e |-> e]
Lines == [k : Kinds, e : {NoEntry} \cup Patches \cup STRING]
NoBase == <<>>      \* there is no top-level pkgbase= line
-----------------------------------------------------------------------------
(* Variants with one planted fault each.                                   *)

NoStatement(l) == FALSE                  \* IsTopLevelStmt: the walk up passes a foreign array's top
ValueAsIs(name, v) == v                  \* Unapply: the wrapped value is wrapped again
-----------------------------------------------------------------------------
(* remove_source_arrays_before_prepare.                                    *)

IsBlank(l) == l.k = "blank"
IsSourceBlockBottom(l) == l.k \in {"close", "last"}
StartsSource(l) == l.k \in {"open", "one"}
IsTopLevelStmt(l) == l.k \in {"open", "one", "fopen", "stmt"}

\* Between the parentheses of an array there is nothing but entries and blank lines.
Parenthesized(h) ==
    \A b \in DOMAIN h : IsSourceBlockBottom(h[b]) =>
        \E a \in 1..(b - 1) : /\ h[a].k \in {"open", "more", "fopen", "fmore"}
                             /\ \A i \in (a + 1)..(b - 1) : h[i].k \in {"item", "blank"}

\* The walk up from the closing line b: it ends at the first top of a source
\* array, blank line or top-level statement; 0 when that is not a source array.
BlockTop(h, b) ==
    LET stop == SelectLastInSubSeq(h, 1, b - 1,
                    LAMBDA l : StartsSource(l) \/ IsBlank(l) \/ IsTopLevelStmt(l))
    IN IF stop # 0 /\ StartsSource(h[stop]) THEN stop ELSE 0

LastNonBlank(h) == SelectLastInSeq(h, LAMBDA l : ~IsBlank(l))

\* The first line of the block directly above prepare(), 0 if nothing is
\* recognized there.
CutFrom(h) ==
    LET b == LastNonBlank(h)
    IN IF b = 0 THEN 0
       ELSE IF IsSourceBlockBottom(h[b]) THEN BlockTop(h, b)
       ELSE IF StartsSource(h[b]) THEN b ELSE 0

Cut(h) == SubSeq(h, 1, CutFrom(h) - 1) \o SubSeq(h, LastNonBlank(h) + 1, Len(h))

\* Stacked blocks go one after the other.
Strip[h \in Seq(Lines)] ==
    IF CutFrom(h) = 0 THEN h ELSE Strip[Cut(h)]

RemoveSourceArrays(h) == Strip[h]
-----------------------------------------------------------------------------
(* insert_new_source_array_into_pkgbuild.                                  *)

\* The entries that end in ".patch", or those that do not.
OfKind(entries, patch) ==
    FoldLeft(LAMBDA kept, e : IF (e \in Patches) = patch THEN Append(kept, e) ELSE kept,
             <<>>, entries)

NonPatches(orig) == OfKind(orig, FALSE)

SourceBlock(entries) ==
    IF entries = <<>>
    THEN <<Line("open", NoEntry), Line("close", NoEntry)>>
    ELSE <<Line("open", NoEntry)>>
             \o [i \in 1..(Len(entries) - 1) |-> Line("item", entries[i])]
             \o <<Line("last", Last(entries))>>

\* Without a line above that of prepare(), or without prepare(), nothing is
\* inserted and the edit succeeds all the same.
InsertSources(file, orig, list) ==
    LET h == IF file.prep THEN RemoveSourceArrays(file.head) ELSE file.head
        block == SourceBlock(NonPatches(orig) \o list)
    IN [file EXCEPT !.head = IF file.prep /\ h # <<>> THEN h \o block ELSE h]

\* What "echo ${source[@]}" prints after the file was sourced, one line at a time:
\* whether the shell is inside the array, and its entries so far.
Entry(l) == IF l.e = NoEntry THEN <<>> ELSE <<l.e>>

ReadLine(st, l) ==
    CASE l.k = "open" -> [in |-> TRUE, arr |-> Entry(l)]
      [] l.k = "one"  -> [in |-> FALSE, arr |-> Entry(l)]
      [] l.k = "more" -> [in |-> TRUE, arr |-> st.arr \o Entry(l)]
      [] l.k = "item" /\ st.in -> [st EXCEPT !.arr = @ \o Entry(l)]
      [] l.k = "last" /\ st.in -> [in |-> FALSE, arr |-> st.arr \o Entry(l)]
      [] l.k \in {"close", "fopen", "fmore"} -> [st EXCEPT !.in = FALSE]
      [] OTHER -> st

SourceArray(file) == FoldLeft(ReadLine, [in |-> FALSE, arr |-> <<>>], file.head).arr
-----------------------------------------------------------------------------
(* apply_pkgbuild_custom_name.                                             *)

IsIdentity(name) == name \in {<<>>, <<PH>>}
HasPlaceholder(name) == Contains(name, PH)

\* The name with the base put in for every placeholder.
Expand(name, base) ==
    FlattenSeq([i \in DOMAIN name |-> IF name[i] = PH THEN base ELSE <<name[i]>>])

\* The proper parts of v that the name wraps into v: at most one.
Inner(name, v) ==
    {x \in {SubSeq(v, i, j) : i \in 1..(Len(v) + 1), j \in 0..Len(v)} :
        Len(x) < Len(v) /\ Expand(name, x) = v}

\* Peel off the layers previous applications of the name have put on.
Unapply(name, v) ==
    LET peel[x \in Seq(STRING)] ==
            IF Inner(name, x) = {} THEN x ELSE peel[CHOOSE y \in Inner(name, x) : TRUE]
    IN IF HasPlaceholder(name) THEN peel[v] ELSE v

CanRename(file, name) ==
    \/ IsIdentity(name)
    \/ /\ \A i \in DOMAIN name : name[i] \notin BadPieces
       /\ file.base # NoBase
       /\ Expand(name, Unapply(name, file.base)) # <<>>

Rename(file, name) ==
    IF IsIdentity(name) THEN file
    ELSE [file EXCEPT !.base = Expand(name, Unapply(name, file.base))]
=============================================================================
