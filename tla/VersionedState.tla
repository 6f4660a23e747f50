--------------------------- MODULE VersionedState ---------------------------
(***************************************************************************)
(* What the state store promises: a map that is worked on, saved, restored *)
(* to any saved version and forked from one, and readers who get the value *)
(* of the version they asked for.                                          *)
(***************************************************************************)
CONSTANTS
    Key, Stored,    \* keys; values a version can hold
    Absent,         \* no value
    Deleted,        \* a stored value that reads as none
    Nothing,        \* not asked, not told
    Reader

Content == [Key -> Stored \cup {Absent}]
Empty == [k \in Key |-> Absent]
Visible(v) == IF v = Deleted THEN Absent ELSE v

VARIABLES
    saved,      \* versions on disk
    current,    \* the version last saved or restored
    work,       \* the version being worked on
    owed,       \* what each reader has asked for
    got         \* what each reader was told

vs == <<saved, current, work, owed, got>>

VInit ==
    /\ saved = {}
    /\ current = Empty
    /\ work = Empty
    /\ owed = [r \in Reader |-> Nothing]
    /\ got = [r \in Reader |-> Nothing]

Write ==
    /\ \E k \in Key, v \in Stored : work' = [work EXCEPT ![k] = v]
    /\ UNCHANGED <<saved, current, owed, got>>

Save ==
    /\ saved' = saved \cup {work}
    /\ current' = work
    /\ UNCHANGED <<work, owed, got>>

\* A version is made from the work and saved, the work itself perhaps as well.
SaveNew ==
    /\ \E c \in Content :
          /\ saved' \in {saved \cup {c}, saved \cup {work, c}}
          /\ current' = c /\ work' = c
    /\ UNCHANGED <<owed, got>>

\* Work is thrown away and starts again from a saved or the current version.
Return(c) ==
    /\ c \in saved \cup {current}
    /\ current' = c /\ work' = c
    /\ UNCHANGED <<saved, owed, got>>

\* Only what was saved survives.
Restart ==
    /\ current' = Empty /\ work' = Empty
    /\ owed' = [r \in Reader |-> Nothing]
    /\ got' = [r \in Reader |-> Nothing]
    /\ UNCHANGED saved

\* A version is made from a saved one and saved; the work is left alone.
Fork ==
    /\ \E c \in Content : saved' = saved \cup {c}
    /\ saved # {}
    /\ UNCHANGED <<current, work, owed, got>>

Ask(r) ==
    /\ \E c \in saved \cup {work}, k \in Key : owed' = [owed EXCEPT ![r] = Visible(c[k])]
    /\ UNCHANGED <<saved, current, work, got>>

Answer(r) ==
    /\ got' = [got EXCEPT ![r] = owed[r]]
    /\ UNCHANGED <<saved, current, work, owed>>

AskAndAnswer(r) ==
    /\ \E c \in saved \cup {work}, k \in Key :
          /\ owed' = [owed EXCEPT ![r] = Visible(c[k])]
          /\ got' = [got EXCEPT ![r] = Visible(c[k])]
    /\ UNCHANGED <<saved, current, work>>

Forget(r) ==
    /\ owed' = [owed EXCEPT ![r] = Nothing]
    /\ got' = [got EXCEPT ![r] = Nothing]
    /\ UNCHANGED <<saved, current, work>>

VNext ==
    \/ Write \/ Save \/ SaveNew \/ Fork \/ Restart
    \/ \E c \in Content : Return(c)
    \/ \E r \in Reader : Ask(r) \/ Answer(r) \/ AskAndAnswer(r) \/ Forget(r)

VSpec == VInit /\ [][VNext]_vs

=============================================================================
