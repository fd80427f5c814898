---------------------------- MODULE KBucketProof ----------------------------
(***************************************************************************)
(* Theorems about the k-bucket, for every set of contacts and every limit. *)
(***************************************************************************)
EXTENDS KBucket, FiniteSetTheorems, TLAPS

IInv == TypeOK /\ CountIsExact

-----------------------------------------------------------------------------
(* What a call does to the list, position by position. *)

\* Moving the i-th contact to the front renumbers the list: position j holds
\* what was at Was(i, j), and every position is accounted for.
Was(i, j) == IF j = 1 THEN i ELSE IF j <= i THEN j - 1 ELSE j

\* where an element was before element i moved to the front: a permutation that
\* keeps the order of the others
LEMMA WasIsRenumbering ==
  ASSUME NEW n \in Nat, NEW i \in 1 .. n
  PROVE  /\ \A j \in 1 .. n : Was(i, j) \in 1 .. n
         /\ \A j, k \in 1 .. n : Was(i, j) = Was(i, k) => j = k
         /\ \A k \in 1 .. n : \E j \in 1 .. n : Was(i, j) = k
         /\ \A j, k \in 1 .. n :
              Was(i, j) # i /\ Was(i, k) # i => (j < k <=> Was(i, j) < Was(i, k))
<1>1. \A j \in 1 .. n : Was(i, j) \in 1 .. n
  BY DEF Was
<1>2. \A j, k \in 1 .. n : Was(i, j) = Was(i, k) => j = k
  BY DEF Was
<1>3. \A k \in 1 .. n : \E j \in 1 .. n : Was(i, j) = k
  <2> TAKE k \in 1 .. n
  <2>1. CASE k = i
    <3>1. 1 \in 1 .. n /\ Was(i, 1) = k
      BY <2>1 DEF Was
    <3> QED BY <3>1
  <2>2. CASE k < i
    <3>1. k + 1 \in 1 .. n /\ Was(i, k + 1) = k
      BY <2>2 DEF Was
    <3> QED BY <3>1
  <2>3. CASE k > i
    <3>1. k \in 1 .. n /\ Was(i, k) = k
      BY <2>3 DEF Was
    <3> QED BY <3>1
  <2> QED BY <2>1, <2>2, <2>3
<1>4. \A j, k \in 1 .. n :
        Was(i, j) # i /\ Was(i, k) # i => (j < k <=> Was(i, j) < Was(i, k))
  BY DEF Was
<1> QED BY <1>1, <1>2, <1>3, <1>4

\* ToFront is that permutation of the bucket
LEMMA ToFrontIsRenumbered ==
  ASSUME contacts \in Seq(Contacts), NEW i \in 1 .. Len(contacts)
  PROVE  /\ ToFront(i) \in Seq(Contacts)
         /\ Len(ToFront(i)) = Len(contacts)
         /\ \A j \in 1 .. Len(contacts) : ToFront(i)[j] = contacts[Was(i, j)]
<1> DEFINE n == Len(contacts)
<1>1. n \in Nat /\ contacts \in [1 .. n -> Contacts]
  OBVIOUS
<1>2. ToFront(i) = [j \in 1 .. n |-> contacts[Was(i, j)]]
  BY DEF ToFront, Was
<1>3. \A j \in 1 .. n : contacts[Was(i, j)] \in Contacts
  BY <1>1, WasIsRenumbering
<1>4. ToFront(i) \in [1 .. n -> Contacts]
  BY <1>2, <1>3
<1>5. ToFront(i) \in Seq(Contacts) /\ Len(ToFront(i)) = n
  BY <1>1, <1>4
<1> QED BY <1>2, <1>5

-----------------------------------------------------------------------------
(* The contacts of a list, and which of two comes first. *)

Elems(s) == {s[k] : k \in 1 .. Len(s)}

Unrepeated(s) == \A j, k \in 1 .. Len(s) : s[j] = s[k] => j = k

Before(s, x, y) == \E j, k \in 1 .. Len(s) : j < k /\ s[j] = x /\ s[k] = y

\* What both ways of a contact to the front come to: c is before all others,
\* of which the order is what it was.
InFront(c, s, t) ==
  /\ Elems(t) = Elems(s) \cup {c}
  /\ t[1] = c
  /\ \A x, y : Before(t, x, y) <=>
       \/ Before(s, x, y) /\ x # c /\ y # c
       \/ x = c /\ y \in Elems(s) /\ y # c

\* a list with one of its elements moved to the front
LEMMA MovedToFront ==
  ASSUME NEW S, NEW s \in Seq(S), NEW t \in Seq(S), NEW i \in 1 .. Len(s),
         Len(t) = Len(s), \A j \in 1 .. Len(s) : t[j] = s[Was(i, j)],
         Unrepeated(s)
  PROVE  Unrepeated(t) /\ InFront(s[i], s, t)
<1> DEFINE n == Len(s)
<1>1. n \in Nat
  OBVIOUS
<1>2. /\ \A j \in 1 .. n : Was(i, j) \in 1 .. n
      /\ \A j, k \in 1 .. n : Was(i, j) = Was(i, k) => j = k
      /\ \A k \in 1 .. n : \E j \in 1 .. n : Was(i, j) = k
      /\ \A j, k \in 1 .. n :
           Was(i, j) # i /\ Was(i, k) # i => (j < k <=> Was(i, j) < Was(i, k))
  BY <1>1, WasIsRenumbering
<1>3. 1 \in 1 .. n /\ Was(i, 1) = i
  BY DEF Was
<1>4. Unrepeated(t)
  <2> SUFFICES ASSUME NEW j \in 1 .. n, NEW k \in 1 .. n, t[j] = t[k]
               PROVE  j = k
    BY DEF Unrepeated
  <2>1. s[Was(i, j)] = s[Was(i, k)]
    OBVIOUS
  <2>2. Was(i, j) = Was(i, k)
    BY <2>1, <1>2, Zenon DEF Unrepeated
  <2>3. j \in 1 .. n /\ k \in 1 .. n /\ \A l, m \in 1 .. n : Was(i, l) = Was(i, m) => l = m
    BY <1>2, Zenon
  <2> QED BY <2>2, <2>3, Zenon
<1>5. t[1] = s[i]
  BY <1>3
<1>6. Elems(t) = Elems(s)
  <2>1. ASSUME NEW k \in 1 .. n PROVE t[k] \in Elems(s)
    <3>1. t[k] = s[Was(i, k)] /\ Was(i, k) \in 1 .. n
      BY <1>2, Zenon
    <3> QED BY <3>1, Zenon DEF Elems
  <2>2. ASSUME NEW k \in 1 .. n
        PROVE  s[k] \in Elems(t)
    <3>1. PICK j \in 1 .. n : Was(i, j) = k
      BY <1>2
    <3>2. t[j] = s[k]
      BY <3>1
    <3> QED BY <3>2 DEF Elems
  <2> QED BY <2>1, <2>2 DEF Elems
<1>7. ASSUME NEW x, NEW y, Before(t, x, y)
      PROVE  \/ Before(s, x, y) /\ x # s[i] /\ y # s[i]
             \/ x = s[i] /\ y \in Elems(s) /\ y # s[i]
  <2>1. PICK j, k \in 1 .. n : j < k /\ t[j] = x /\ t[k] = y
    BY <1>7 DEF Before
  <2>2. k # 1
    BY <2>1
  <2>3. Was(i, k) # i
    BY <2>2, <1>2, <1>3
  <2>4. y = s[Was(i, k)] /\ y \in Elems(s) /\ y # s[i]
    <3>1. y = s[Was(i, k)] /\ Was(i, k) \in 1 .. n
      BY <2>1, <1>2
    <3>2. y # s[i]
      BY <3>1, <2>3 DEF Unrepeated
    <3> QED BY <3>1, <3>2 DEF Elems
  <2>5. CASE Was(i, j) = i
    BY <2>1, <2>4, <2>5
  <2>6. CASE Was(i, j) # i
    <3>1. x = s[Was(i, j)] /\ x # s[i]
      BY <2>1, <2>6, <1>2, Zenon DEF Unrepeated
    <3>2. Was(i, j) < Was(i, k)
      BY <2>1, <2>3, <2>6, <1>2
    <3> QED BY <2>4, <3>1, <3>2, <1>2 DEF Before
  <2> QED BY <2>5, <2>6
<1>8. ASSUME NEW x, NEW y, Before(s, x, y), x # s[i], y # s[i]
      PROVE  Before(t, x, y)
  <2>1. PICK k, l \in 1 .. n : k < l /\ s[k] = x /\ s[l] = y
    BY <1>8 DEF Before
  <2>2. PICK j \in 1 .. n : Was(i, j) = k
    BY <1>2
  <2>3. PICK m \in 1 .. n : Was(i, m) = l
    BY <1>2
  <2>4. j < m
    BY <2>1, <2>2, <2>3, <1>2, <1>8
  <2> QED BY <2>1, <2>2, <2>3, <2>4 DEF Before
<1>9. ASSUME NEW y \in Elems(s), y # s[i]
      PROVE  Before(t, s[i], y)
  <2>1. PICK l \in 1 .. n : s[l] = y
    BY DEF Elems
  <2>2. PICK m \in 1 .. n : Was(i, m) = l
    BY <1>2
  <2>3. m # 1
    BY <2>1, <2>2, <1>3, <1>9
  <2>4. 1 < m /\ t[m] = y
    BY <2>1, <2>2, <2>3
  <2> QED BY <2>4, <1>3, <1>5 DEF Before
<1>10. Elems(s) = Elems(s) \cup {s[i]}
  BY DEF Elems
<1> QED BY <1>4, <1>5, <1>6, <1>7, <1>8, <1>9, <1>10 DEF InFront

\* a list with a new element in front
LEMMA AddedInFront ==
  ASSUME NEW S, NEW s \in Seq(S), NEW c \in S, c \notin Elems(s), Unrepeated(s)
  PROVE  /\ <<c>> \o s \in Seq(S)
         /\ Len(<<c>> \o s) = Len(s) + 1
         /\ Unrepeated(<<c>> \o s)
         /\ InFront(c, s, <<c>> \o s)
<1> DEFINE n == Len(s)
           t == <<c>> \o s
<1>1. n \in Nat /\ t \in Seq(S) /\ Len(t) = n + 1
  OBVIOUS
<1>2. t[1] = c
  OBVIOUS
<1>3. \A j \in 1 .. n : t[j + 1] = s[j]
  OBVIOUS
<1> HIDE DEF t
<1>4. \A k \in 1 .. n + 1 : k # 1 => \E j \in 1 .. n : k = j + 1 /\ t[k] = s[j]
  <2> SUFFICES ASSUME NEW k \in 1 .. n + 1, k # 1
               PROVE  \E j \in 1 .. n : k = j + 1 /\ t[k] = s[j]
    OBVIOUS
  <2>1. k - 1 \in 1 .. n /\ k = (k - 1) + 1
    BY <1>1
  <2> QED BY <2>1, <1>3
<1>5. \A j \in 1 .. n : j + 1 \in 1 .. n + 1 /\ j + 1 # 1 /\ s[j] # c
  BY <1>1 DEF Elems
<1>6. 1 \in 1 .. n + 1
  BY <1>1
<1>7. Unrepeated(t)
  <2> SUFFICES ASSUME NEW j \in 1 .. n + 1, NEW k \in 1 .. n + 1, t[j] = t[k]
               PROVE  j = k
    BY <1>1 DEF Unrepeated
  <2>1. CASE j = 1 \/ k = 1
    BY <2>1, <1>2, <1>4, <1>5
  <2>2. CASE j # 1 /\ k # 1
    BY <2>2, <1>4 DEF Unrepeated
  <2> QED BY <2>1, <2>2
<1>8. Elems(t) = Elems(s) \cup {c}
  <2>1. \A k \in 1 .. n + 1 : t[k] \in Elems(s) \cup {c}
    BY <1>2, <1>4 DEF Elems
  <2>2. \A j \in 1 .. n : s[j] \in Elems(t)
    BY <1>1, <1>3, <1>5 DEF Elems
  <2>3. c \in Elems(t)
    BY <1>1, <1>2, <1>6 DEF Elems
  <2> QED BY <1>1, <2>1, <2>2, <2>3 DEF Elems
<1>9. ASSUME NEW x, NEW y, Before(t, x, y)
      PROVE  \/ Before(s, x, y) /\ x # c /\ y # c
             \/ x = c /\ y \in Elems(s) /\ y # c
  <2>1. PICK j, k \in 1 .. n + 1 : j < k /\ t[j] = x /\ t[k] = y
    BY <1>1, <1>9 DEF Before
  <2>2. PICK l \in 1 .. n : k = l + 1 /\ t[k] = s[l]
    BY <2>1, <1>4, <1>1
  <2>3. y \in Elems(s) /\ y # c
    BY <2>1, <2>2, <1>5 DEF Elems
  <2>4. CASE j = 1
    BY <2>1, <2>3, <2>4, <1>2
  <2>5. CASE j # 1
    <3>1. PICK m \in 1 .. n : j = m + 1 /\ t[j] = s[m]
      BY <2>5, <1>4
    <3>2. m < l
      BY <2>1, <2>2, <3>1
    <3> QED BY <2>1, <2>2, <2>3, <3>1, <3>2, <1>5 DEF Before
  <2> QED BY <2>4, <2>5
<1>10. ASSUME NEW x, NEW y, Before(s, x, y)
       PROVE  Before(t, x, y)
  <2>1. PICK j, k \in 1 .. n : j < k /\ s[j] = x /\ s[k] = y
    BY <1>10 DEF Before
  <2>2. j + 1 < k + 1 /\ t[j + 1] = x /\ t[k + 1] = y
    BY <2>1, <1>3
  <2> QED BY <2>2, <1>1, <1>5 DEF Before
<1>11. ASSUME NEW y \in Elems(s)
       PROVE  Before(t, c, y)
  <2>1. PICK l \in 1 .. n : s[l] = y
    BY DEF Elems
  <2>2. 1 < l + 1 /\ t[l + 1] = y
    BY <2>1, <1>3
  <2> QED BY <2>2, <1>1, <1>2, <1>5, <1>6 DEF Before
<1>12. InFront(c, s, t)
  BY <1>2, <1>8, <1>9, <1>10, <1>11 DEF InFront
<1> QED BY <1>1, <1>7, <1>12 DEF t

-----------------------------------------------------------------------------
(* What a call does to the bucket. *)

\* KBucket speaks of contacts where the lemmas speak of any list.
LEMMA ListOfContacts ==
  /\ Known = Elems(contacts)
  /\ Distinct <=> Unrepeated(contacts)
  /\ \A p : p \in Newer <=> p = <<p[1], p[2]>> /\ Before(contacts, p[1], p[2])
<1>1. Known = Elems(contacts) /\ (Distinct <=> Unrepeated(contacts))
  BY DEF Known, Elems, Distinct, Unrepeated
<1>2. ASSUME NEW p
      PROVE  p \in Newer <=> p = <<p[1], p[2]>> /\ Before(contacts, p[1], p[2])
  <2>1. ASSUME p \in Newer
        PROVE  p = <<p[1], p[2]>> /\ Before(contacts, p[1], p[2])
    BY <2>1 DEF Newer, Before
  <2>2. ASSUME p = <<p[1], p[2]>>, Before(contacts, p[1], p[2])
        PROVE  p \in Newer
    <3>1. PICK j, k \in 1 .. Len(contacts) :
            j < k /\ contacts[j] = p[1] /\ contacts[k] = p[2]
      BY <2>2 DEF Before
    <3>2. <<j, k>> \in (1 .. Len(contacts)) \X (1 .. Len(contacts))
      OBVIOUS
    <3>3. p = <<contacts[<<j, k>>[1]], contacts[<<j, k>>[2]]>>
      BY <3>1, <2>2
    <3> QED BY <3>1, <3>2, <3>3 DEF Newer
  <2> QED BY <2>1, <2>2
<1> QED BY <1>1, <1>2

\* the same facts about the bucket after the step
LEMMA ListOfContactsNext ==
  /\ Known' = Elems(contacts')
  /\ Distinct' <=> Unrepeated(contacts')
  /\ \A p : p \in Newer' <=> p = <<p[1], p[2]>> /\ Before(contacts', p[1], p[2])
<1>1. Known' = Elems(contacts') /\ (Distinct' <=> Unrepeated(contacts'))
  BY DEF Known, Elems, Distinct, Unrepeated
<1>2. ASSUME NEW p
      PROVE  p \in Newer' <=> p = <<p[1], p[2]>> /\ Before(contacts', p[1], p[2])
  <2>1. ASSUME p \in Newer'
        PROVE  p = <<p[1], p[2]>> /\ Before(contacts', p[1], p[2])
    BY <2>1 DEF Newer, Before
  <2>2. ASSUME p = <<p[1], p[2]>>, Before(contacts', p[1], p[2])
        PROVE  p \in Newer'
    <3>1. PICK j, k \in 1 .. Len(contacts') :
            j < k /\ contacts'[j] = p[1] /\ contacts'[k] = p[2]
      BY <2>2 DEF Before
    <3>2. <<j, k>> \in (1 .. Len(contacts')) \X (1 .. Len(contacts'))
      OBVIOUS
    <3>3. p = <<contacts'[<<j, k>>[1]], contacts'[<<j, k>>[2]]>>
      BY <3>1, <2>2
    <3> QED BY <3>1, <3>2, <3>3 DEF Newer
  <2> QED BY <2>1, <2>2
<1> QED BY <1>1, <1>2

\* a known contact inserted comes to the front of the same contacts
LEMMA KnownInFront ==
  ASSUME IInv, NEW c \in Contacts, InsertKnown(c)
  PROVE  /\ contacts' \in Seq(Contacts)
         /\ Len(contacts') = Len(contacts)
         /\ Unrepeated(contacts')
         /\ InFront(c, contacts, contacts')
         /\ c \in Elems(contacts)
<1>1. contacts \in Seq(Contacts) /\ Unrepeated(contacts)
  BY ListOfContacts DEF IInv, TypeOK, CountIsExact
<1>2. PICK i \in 1 .. Len(contacts) : contacts[i] = c /\ contacts' = ToFront(i)
  BY DEF InsertKnown
<1>3. /\ contacts' \in Seq(Contacts)
      /\ Len(contacts') = Len(contacts)
      /\ \A j \in 1 .. Len(contacts) : contacts'[j] = contacts[Was(i, j)]
  BY <1>1, <1>2, ToFrontIsRenumbered
<1>4. Unrepeated(contacts') /\ InFront(contacts[i], contacts, contacts')
  BY <1>1, <1>3, MovedToFront
<1>5. c \in Elems(contacts)
  BY <1>2 DEF Elems
<1> QED BY <1>2, <1>3, <1>4, <1>5

\* a new contact inserted comes to the front of one more
LEMMA NewInFront ==
  ASSUME IInv, NEW c \in Contacts, InsertNew(c)
  PROVE  /\ contacts' \in Seq(Contacts)
         /\ Len(contacts') = Len(contacts) + 1
         /\ Unrepeated(contacts')
         /\ InFront(c, contacts, contacts')
<1>1. contacts \in Seq(Contacts) /\ Unrepeated(contacts)
  BY ListOfContacts DEF IInv, TypeOK, CountIsExact
<1>2. c \notin Elems(contacts) /\ contacts' = <<c>> \o contacts
  BY ListOfContacts DEF InsertNew
<1> QED BY <1>1, <1>2, AddedInFront

\* the invariant holds at the start, ...
LEMMA InvInit == Init => IInv
BY MaxAssumption DEF Init, IInv, TypeOK, CountIsExact, Distinct, Inserted

\* ... and every step keeps it
LEMMA InvNext == IInv /\ [Next]_vars => IInv'
<1> SUFFICES ASSUME IInv, [Next]_vars
             PROVE  IInv'
  OBVIOUS
<1>1. /\ contact_max \in Nat /\ contact_ct \in 0 .. contact_max
      /\ contacts \in Seq(Contacts) /\ contact_ct = Len(contacts)
      /\ Unrepeated(contacts)
  BY MaxAssumption, ListOfContacts DEF IInv, TypeOK, CountIsExact
<1>2. ASSUME NEW c \in Contacts, Insert(c)
      PROVE  /\ contacts' \in Seq(Contacts) /\ Unrepeated(contacts')
             /\ contact_ct' = Len(contacts') /\ contact_ct' \in 0 .. contact_max
  <2>1. CASE InsertKnown(c)
    <3>1. contact_ct' = contact_ct
      BY <2>1 DEF InsertKnown
    <3> QED BY <2>1, <3>1, <1>1, KnownInFront
  <2>2. CASE InsertRefused(c)
    BY <2>2, <1>1 DEF InsertRefused
  <2>3. CASE InsertNotCopied(c)
    BY <2>3, <1>1 DEF InsertNotCopied
  <2>4. CASE InsertNew(c)
    <3>1. contact_ct' = contact_ct + 1 /\ contact_ct < contact_max
      BY <2>4 DEF InsertNew
    <3> QED BY <2>4, <3>1, <1>1, NewInFront
  <2> QED BY <1>2, <2>1, <2>2, <2>3, <2>4 DEF Insert
<1>3. ASSUME NEW c \in Contacts, Insert(c)
      PROVE  contact' \in Contacts /\ ret' \in {Inserted, Full, NoMemory}
  BY <1>3 DEF Insert, InsertKnown, InsertRefused, InsertNotCopied, InsertNew, Returns
<1>4. CASE UNCHANGED vars
  BY <1>4 DEF vars, IInv, TypeOK, CountIsExact, Distinct
<1>5. ASSUME NEW c \in Contacts, Insert(c)
      PROVE  IInv'
  BY <1>5, <1>2, <1>3, ListOfContactsNext DEF IInv, TypeOK, CountIsExact
<1> QED BY <1>4, <1>5 DEF Next

-----------------------------------------------------------------------------
(* Theorems *)

\* The count stays within the limit and the list holds contacts, whatever is
\* inserted and whichever copy fails.
THEOREM BucketTypes == Spec => []TypeOK
<1>1. IInv => TypeOK
  BY DEF IInv
<1> QED BY InvInit, InvNext, <1>1, PTL DEF Spec

\* What the limit is compared with is the number of different contacts held.
THEOREM BucketCountsItsContacts == Spec => []CountIsExact
<1>1. IInv => CountIsExact
  BY DEF IInv
<1> QED BY InvInit, InvNext, <1>1, PTL DEF Spec

\* the action property, of every step
LEMMA KnownStaysNext ==
  ASSUME IInv, [Next]_vars
  PROVE  [/\ Known \subseteq Known'
          /\ ret' < 0 => contacts' = contacts /\ contact' \notin Known
          /\ ret' >= 0 => contacts'[1] = contact']_vars
<1>1. ASSUME NEW c \in Contacts, Insert(c)
      PROVE  /\ Known \subseteq Known'
             /\ ret' < 0 => contacts' = contacts /\ contact' \notin Known
             /\ ret' >= 0 => contacts'[1] = contact'
  <2>1. Known = Elems(contacts) /\ Known' = Elems(contacts')
    BY ListOfContacts, ListOfContactsNext
  <2>2. CASE InsertKnown(c)
    <3>1. ret' = Inserted /\ contact' = c
      BY <2>2 DEF InsertKnown, Returns
    <3>2. Elems(contacts') = Elems(contacts) \cup {c} /\ contacts'[1] = c
      BY <2>2, KnownInFront DEF InFront
    <3> QED BY <2>1, <3>1, <3>2 DEF Inserted
  <2>3. CASE InsertNew(c)
    <3>1. ret' = Inserted /\ contact' = c
      BY <2>3 DEF InsertNew, Returns
    <3>2. Elems(contacts') = Elems(contacts) \cup {c} /\ contacts'[1] = c
      BY <2>3, NewInFront DEF InFront
    <3> QED BY <2>1, <3>1, <3>2 DEF Inserted
  <2>4. CASE InsertRefused(c) \/ InsertNotCopied(c)
    <3>1. /\ c \notin Known /\ contacts' = contacts /\ contact' = c
          /\ ret' \in {Full, NoMemory}
      BY <2>4 DEF InsertRefused, InsertNotCopied, Returns
    <3> QED BY <2>1, <3>1 DEF Full, NoMemory
  <2> QED BY <1>1, <2>2, <2>3, <2>4 DEF Insert
<1> QED BY <1>1 DEF Next

\* A contact once taken in is never lost or turned away, and a failing call
\* changes nothing.
THEOREM BucketNeverForgets == Spec => KnownStays
BY InvInit, InvNext, KnownStaysNext, PTL DEF Spec, KnownStays

\* the abstract order starts empty, as the bucket does, ...
LEMMA OrderInit == Init => Order!Init
<1> SUFFICES ASSUME Init
             PROVE  Order!Init
  OBVIOUS
<1>1. Len(contacts) = 0
  BY DEF Init
<1>2. 1 .. Len(contacts) = {}
  BY <1>1
<1> QED BY <1>2 DEF Order!Init, Known, Newer

\* As many contacts are known as the list is long, at most.
LEMMA KnownCounted ==
  ASSUME IInv
  PROVE  Cardinality(Known) \in Nat /\ Cardinality(Known) <= contact_ct
<1>1. contacts \in Seq(Contacts) /\ contact_ct = Len(contacts)
  BY DEF IInv, TypeOK, CountIsExact
<1>2. Len(contacts) \in Nat
  BY <1>1
<1>3. contacts \in Surjection(1 .. Len(contacts), Known)
  <2>1. \A k \in Known : \E j \in 1 .. Len(contacts) : contacts[j] = k
    BY DEF Known
  <2>2. contacts \in [1 .. Len(contacts) -> Known]
    BY <1>1 DEF Known
  <2> QED BY <2>1, <2>2 DEF Surjection
<1>4. IsFiniteSet(1 .. Len(contacts)) /\ Cardinality(1 .. Len(contacts)) = Len(contacts)
  <2>1. \A k \in Nat : IsFiniteSet(1 .. k) /\ Cardinality(1 .. k) = k
    BY FS_Interval
  <2> QED BY <1>2, <2>1, Zenon
<1>5. IsFiniteSet(Known) /\ Cardinality(Known) <= Cardinality(1 .. Len(contacts))
  BY <1>3, <1>4, FS_Surjection
<1>6. Cardinality(Known) \in Nat
  BY <1>5, FS_CardinalityType
<1> QED BY <1>1, <1>4, <1>5, <1>6

\* A contact that comes to the front is now newer than every other.
LEMMA FrontIsHeardOf ==
  ASSUME NEW c, InFront(c, contacts, contacts')
  PROVE  Order!HeardOf(c)
<1>1. Known' = Known \cup {c}
  BY ListOfContacts, ListOfContactsNext DEF InFront
<1> DEFINE Expected == {p \in Newer : c \notin {p[1], p[2]}} \cup ({c} \X (Known \ {c}))
<1>2. ASSUME NEW p, p \in Newer'
      PROVE  p \in Expected
  <2>1. p = <<p[1], p[2]>> /\ Before(contacts', p[1], p[2])
    BY <1>2, ListOfContactsNext
  <2>2. CASE Before(contacts, p[1], p[2]) /\ p[1] # c /\ p[2] # c
    BY <2>1, <2>2, ListOfContacts
  <2>3. CASE p[1] = c /\ p[2] \in Elems(contacts) /\ p[2] # c
    BY <2>1, <2>3, ListOfContacts
  <2> QED BY <2>1, <2>2, <2>3 DEF InFront
<1>3. ASSUME NEW p, p \in Expected
      PROVE  p \in Newer'
  <2>1. CASE p \in Newer /\ p[1] # c /\ p[2] # c
    <3>1. p = <<p[1], p[2]>> /\ Before(contacts, p[1], p[2])
      BY <2>1, ListOfContacts
    <3> QED BY <2>1, <3>1, ListOfContactsNext DEF InFront
  <2>2. CASE p \in {c} \X (Known \ {c})
    <3>1. p = <<p[1], p[2]>> /\ p[1] = c /\ p[2] \in Elems(contacts) /\ p[2] # c
      BY <2>2, ListOfContacts
    <3> QED BY <3>1, ListOfContactsNext DEF InFront
  <2> QED BY <1>3, <2>1, <2>2
<1>4. Newer' = Expected
  BY <1>2, <1>3
<1> QED BY <1>1, <1>4 DEF Order!HeardOf

\* ... and every step of the bucket is a step of the order
LEMMA OrderNext == IInv /\ [Next]_vars => [Order!Next]_<<Known, Newer>>
<1> SUFFICES ASSUME IInv, [Next]_vars
             PROVE  Order!Next \/ <<Known, Newer>>' = <<Known, Newer>>
  OBVIOUS
<1>1. ASSUME contacts' = contacts
      PROVE  <<Known, Newer>>' = <<Known, Newer>>
  BY <1>1 DEF Known, Newer
<1>2. CASE UNCHANGED vars
  BY <1>1, <1>2 DEF vars
<1>3. ASSUME NEW c \in Contacts, Insert(c)
      PROVE  Order!Next \/ <<Known, Newer>>' = <<Known, Newer>>
  <2>1. CASE InsertKnown(c)
    <3>1. Order!HeardOf(c) /\ c \in Known
      BY <2>1, KnownInFront, FrontIsHeardOf, ListOfContacts
    <3> QED BY <3>1 DEF Order!Next, Order!Accept
  <2>2. CASE InsertNew(c)
    <3>1. Order!HeardOf(c)
      BY <2>2, NewInFront, FrontIsHeardOf
    <3>2. contact_ct < contact_max /\ contact_ct \in Nat
      BY <2>2, MaxAssumption DEF InsertNew, IInv, TypeOK
    <3>3. Cardinality(Known) < contact_max
      BY <3>2, KnownCounted, MaxAssumption
    <3>4. Order!Cardinality(Known) = Cardinality(Known)
      BY DEF Order!Cardinality, Cardinality
    <3> QED BY <3>1, <3>3, <3>4 DEF Order!Next, Order!Accept
  <2>3. CASE InsertRefused(c) \/ InsertNotCopied(c)
    BY <2>3, <1>1 DEF InsertRefused, InsertNotCopied
  <2> QED BY <1>3, <2>1, <2>2, <2>3 DEF Insert
<1> QED BY <1>2, <1>3 DEF Next

\* Whatever the limit and however calls fail, the list is the order in which the
\* contacts it knows were last heard of.
THEOREM BucketKeepsOrder == Spec => KeepsOrder
BY InvInit, InvNext, OrderInit, OrderNext, PTL DEF Spec, KeepsOrder, Order!Spec
=============================================================================
