------------------------------ MODULE KBucket ------------------------------
(***************************************************************************)
(* The k-bucket of src/kademlia.c: a list of contacts and a count of them, *)
(* changed by kbucket_contact_insert only.  find_contact, copy_contact and *)
(* the list are not in the repository: a contact is found when it is on    *)
(* the list, a copy may fail, and list_add adds in front.                  *)
(***************************************************************************)
EXTENDS Integers, Sequences, FiniteSets

CONSTANTS
  Contacts,      \* the contacts that may be heard of
  contact_max    \* of the bucket

ASSUME MaxAssumption == contact_max \in Nat

VARIABLES
  contacts,      \* bucket->contacts, the front first
  contact_ct,    \* bucket->contact_ct
  contact,       \* the contact the last call was about
  ret            \* what it returned

vars == <<contacts, contact_ct, contact, ret>>

\* the values kbucket_contact_insert returns
Inserted == 0
Full     == -1
NoMemory == -2

Known == {contacts[i] : i \in 1 .. Len(contacts)}

Init ==
  /\ contacts = <<>>
  /\ contact_ct = 0
  /\ contact \in Contacts
  /\ ret = Inserted

-----------------------------------------------------------------------------
Returns(c, r) == contact' = c /\ ret' = r

\* list_del and list_add of the i-th contact
ToFront(i) ==
  [j \in 1 .. Len(contacts) |->
     IF j = 1 THEN contacts[i]
     ELSE IF j <= i THEN contacts[j - 1] ELSE contacts[j]]

\* mutated: the contact changes places with the one in front
InsertKnownSwapped(c) ==
  /\ \E i \in 1 .. Len(contacts) :
       /\ contacts[i] = c
       /\ contacts' = [contacts EXCEPT ![1] = c, ![i] = contacts[1]]
  /\ Returns(c, Inserted)
  /\ UNCHANGED contact_ct

\* mutated: whether there is room is asked first
InsertKnownIfRoom(c) ==
  /\ c \in Known
  /\ \/ /\ contact_ct < contact_max
        /\ \E i \in 1 .. Len(contacts) :
             contacts[i] = c /\ contacts' = ToFront(i)
        /\ Returns(c, Inserted)
     \/ /\ contact_ct >= contact_max
        /\ Returns(c, Full)
        /\ UNCHANGED contacts
  /\ UNCHANGED contact_ct

InsertKnown(c) ==
  /\ \E i \in 1 .. Len(contacts) :
       contacts[i] = c /\ contacts' = ToFront(i)
  /\ Returns(c, Inserted)
  /\ UNCHANGED contact_ct

InsertRefused(c) ==
  /\ c \notin Known
  /\ contact_ct >= contact_max
  /\ Returns(c, Full)
  /\ UNCHANGED <<contacts, contact_ct>>

\* mutated: counted before it is known whether there is a copy
InsertNotCopiedCounted(c) ==
  /\ c \notin Known
  /\ contact_ct < contact_max
  /\ contact_ct' = contact_ct + 1
  /\ Returns(c, NoMemory)
  /\ UNCHANGED contacts

InsertNotCopied(c) ==
  /\ c \notin Known
  /\ contact_ct < contact_max
  /\ Returns(c, NoMemory)
  /\ UNCHANGED <<contacts, contact_ct>>

InsertNew(c) ==
  /\ c \notin Known
  /\ contact_ct < contact_max
  /\ contacts' = <<c>> \o contacts
  /\ contact_ct' = contact_ct + 1
  /\ Returns(c, Inserted)

-----------------------------------------------------------------------------
\* kbucket_contact_insert
Insert(c) ==
  InsertKnown(c) \/ InsertRefused(c) \/ InsertNotCopied(c) \/ InsertNew(c)

Next == \E c \in Contacts : Insert(c)

Spec == Init /\ [][Next]_vars

-----------------------------------------------------------------------------
(* Properties *)

TypeOK ==
  /\ contacts \in Seq(Contacts)
  /\ contact_ct \in 0 .. contact_max
  /\ contact \in Contacts
  /\ ret \in {Inserted, Full, NoMemory}

Distinct ==
  \A i, j \in 1 .. Len(contacts) : contacts[i] = contacts[j] => i = j

\* The count the limit is compared with is the length of the list, whichever
\* calls failed on the way, and no contact is on the list twice: the bucket holds
\* at most contact_max contacts, and holds that many before it refuses one.
CountIsExact == contact_ct = Len(contacts) /\ Distinct

\* A contact the bucket knows is not turned away and not forgotten, however full
\* the bucket is; a call that fails (returns a negative number) leaves the bucket
\* as it was, and one that does not puts its contact in front.
KnownStays ==
  [][/\ Known \subseteq Known'
     /\ ret' < 0 => contacts' = contacts /\ contact' \notin Known
     /\ ret' >= 0 => contacts'[1] = contact']_vars

\* The list is the order in which the contacts were last heard of, latest first.
Newer ==
  {<<contacts[x[1]], contacts[x[2]]>> :
     x \in {y \in (1 .. Len(contacts)) \X (1 .. Len(contacts)) : y[1] < y[2]}}

Order == INSTANCE RecencyOrder WITH
  Room <- contact_max, known <- Known, newer <- Newer

KeepsOrder == Order!Spec

=============================================================================
