----------------------------- MODULE NoteStore -----------------------------
(***************************************************************************)
(* What the notes feature promises its clients about the table of notes,    *)
(* with no sessions, locks or statements in it (NoteService and its port,    *)
(* features/notes/domain).                                                  *)
(***************************************************************************)
CONSTANTS
    Ids,     \* the ids of notes
    Users,   \* their owners
    Texts,   \* what a title or a body may be
    NoNote   \* there is no note with this id

VARIABLES
    notes,    \* the notes there are
    used,     \* the ids that were ever given to a note
    reserved  \* the ids of notes being created, with their owners

storeVars == <<notes, used, reserved>>

Notes == [owner: Users, title: Texts, body: Texts]

Init ==
    /\ notes \in [Ids -> Notes \cup {NoNote}]
    /\ used = {id \in Ids : notes[id] # NoNote}
    /\ reserved = {}

\* create_note() begins with a new id.
Reserve(id, user) ==
    /\ id \notin used
    /\ used' = used \cup {id}
    /\ reserved' = reserved \cup {[id |-> id, owner |-> user]}
    /\ UNCHANGED notes

\* It fails, and nobody has seen the note.
Abandon(new) ==
    /\ reserved' = reserved \ {new}
    /\ UNCHANGED <<notes, used>>

\* It succeeds: the note is its caller's.
Create(new) ==
    /\ notes[new.id] = NoNote
    /\ \E note \in Notes : /\ note.owner = new.owner
                           /\ notes' = [notes EXCEPT ![new.id] = note]
    /\ reserved' = reserved \ {new}
    /\ UNCHANGED used

\* update_note(): a note that is there gets new texts and keeps its owner.
Edit(id) ==
    /\ notes[id] # NoNote
    /\ \E title, body \in Texts :
          notes' = [notes EXCEPT ![id] = [owner |-> notes[id].owner,
                                          title |-> title, body |-> body]]
    /\ UNCHANGED <<used, reserved>>

\* delete_note()
Delete(id) ==
    /\ notes[id] # NoNote
    /\ notes' = [notes EXCEPT ![id] = NoNote]
    /\ UNCHANGED <<used, reserved>>

Next ==
    \/ \E id \in Ids, user \in Users : Reserve(id, user)
    \/ \E new \in reserved : Abandon(new) \/ Create(new)
    \/ \E id \in Ids : Edit(id) \/ Delete(id)

Spec == Init /\ [][Next]_storeVars
=============================================================================
