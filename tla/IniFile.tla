------------------------------ MODULE IniFile ------------------------------
(***************************************************************************)
(* GetInitKey of lib/init.c: the value of a key in a section of the        *)
(* configuration file, read line by line.                                  *)
(*                                                                         *)
(* A line is what the code tells apart: a blank or comment line, a section *)
(* heading, an entry with a "=" (the text before it is a sequence of       *)
(* characters, since keys are looked for inside it), or any other text.    *)
(* The value of an entry is represented by the number of its line.  Lines  *)
(* fit the buffer of 1024 characters.  Every lookup opens the file anew,   *)
(* and finds in it whatever its owner has written since.                   *)
(***************************************************************************)
EXTENDS Integers, Sequences, FiniteSetsExt

CONSTANTS
    Title, Key,   \* the arguments: a section title and a sequence of characters
    Titles,       \* the titles of sections
    Lefts,        \* what may stand before the "=" of an entry
    Blank,        \* a space or tab
    MaxLines      \* bound: lines of a file

ASSUME IniAssumption == Title \in Titles /\ Key # <<>> /\ MaxLines \in Nat

\* The keys the program asks for have no blanks in them, and the text before a
\* "=" is one word at most, with blanks around it.
ASSUME KeyAssumption ==
    /\ \A l \in Lefts \cup {Key} : Len(l) \in Nat /\ l = [k \in 1..Len(l) |-> l[k]]
    /\ \A k \in DOMAIN Key : Key[k] # Blank
    /\ \A l \in Lefts : \A a, b, c \in DOMAIN l :
          a < b /\ b < c /\ l[a] # Blank /\ l[c] # Blank => l[b] # Blank

Section(t) == [kind |-> "section", title |-> t, left |-> <<>>]
Entry(l) == [kind |-> "entry", title |-> Title, left |-> l]
Ignored == [kind |-> "ignored", title |-> Title, left |-> <<>>]
Text == [kind |-> "text", title |-> Title, left |-> <<>>]

Lines == {Section(t) : t \in Titles} \cup {Entry(l) : l \in Lefts} \cup {Ignored, Text}
Files == UNION {[1..n -> Lines] : n \in 0..MaxLines}

VARIABLES
    file,    \* the lines of the file, <<>> for an empty one
    i,       \* the line being read
    flag,    \* 1 inside the section
    result   \* Closed, then Reading, then the line whose value is returned, 0
             \* for "" and NoSuchFile for the text that says so

Reading == -1
NoSuchFile == -2
Closed == -3

iniVars == <<file, i, flag, result>>

IniInit == file = <<>> /\ i = 1 /\ flag = 0 /\ result = Closed

line(kind) == result = Reading /\ i <= Len(file) /\ file[i].kind = kind

\* strstr(tmpLine, key) on the text before the "=".
found(l) == {k \in 1..(Len(l) - Len(Key) + 1) : SubSeq(l, k, k + Len(Key) - 1) = Key}

\* Variant of hits: whatever comes before the key.
hitsAnyPrefix(l) ==
    /\ found(l) # {}
    /\ LET p == Min(found(l)) + Len(Key) IN p > Len(l) \/ l[p] = Blank

\* The first place the key is found at counts, if nothing but a blank is next
\* to it on either side.
hits(l) ==
    /\ found(l) # {}
    /\ LET p == Min(found(l))
       IN  /\ p = 1 \/ l[p - 1] = Blank
           /\ p + Len(Key) > Len(l) \/ l[p + Len(Key)] = Blank

next == i' = i + 1 /\ UNCHANGED <<file, result>>
return(r) == result' = r /\ UNCHANGED <<file, i, flag>>

\* GetInitKey is called: fopen, which may fail.
openFile ==
    /\ result = Closed
    /\ \/ file' \in Files /\ result' = Reading
       \/ result' = NoSuchFile /\ UNCHANGED file
    /\ UNCHANGED <<i, flag>>

skipLine == line("ignored") /\ next /\ UNCHANGED flag

\* The section is over with the next heading; PROCESS_DUP_SECTION is not set.
meetSection ==
    /\ line("section")
    /\ IF flag = 1
       THEN return(0)
       ELSE next /\ flag' = IF file[i].title = Title THEN 1 ELSE 0

meetText == line("text") /\ next /\ UNCHANGED flag

meetEntry ==
    /\ line("entry")
    /\ IF flag = 1 /\ hits(file[i].left) THEN return(i) ELSE next /\ UNCHANGED flag

endOfFile == result = Reading /\ i > Len(file) /\ return(0)

readLine == skipLine \/ meetSection \/ meetText \/ meetEntry \/ endOfFile

Returned == result \notin {Closed, Reading}

-----------------------------------------------------------------------------
(* Properties. *)

\* l without the blanks around it.
Trimmed(l) ==
    LET solid == {k \in DOMAIN l : l[k] # Blank}
    IN  IF solid = {} THEN <<>> ELSE SubSeq(l, Min(solid), Max(solid))

\* Line j belongs to the first section of the title.
InSection(j) ==
    \E s \in 1..(j - 1) :
        /\ file[s] = Section(Title)
        /\ \A k \in 1..(j - 1) :
              k # s => file[k].kind # "section" \/ (k < s /\ file[k] # Section(Title))

\* The lines a reader of the file would take for the key's.
Wanted == {j \in 1..Len(file) : file[j].kind = "entry" /\ InSection(j) /\ Trimmed(file[j].left) = Key}

\* GetInitKey returns the value of the first entry of the section whose key is
\* the one asked for, and "" if there is none: not a comment, not the entry of
\* another section, of a longer key, or of one that ends or begins the same.
FindsTheKey ==
    result >= 0 => result = IF Wanted = {} THEN 0 ELSE Min(Wanted)

=============================================================================
