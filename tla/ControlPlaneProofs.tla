-------------------------- MODULE ControlPlaneProofs --------------------------
(***************************************************************************)
(* Proofs about three parts of the control plane that share no variables,  *)
(* the sync of a connection, the configuration of an organisation and the  *)
(* listing of a code host.                                                 *)
(* Each has an inductive invariant, a lemma for every kind of step, and a  *)
(* theorem for the property the runs check on a small instance.            *)
(***************************************************************************)
EXTENDS ConnectionSync, OrgConfig, CodeHosts, TLAPS

-----------------------------------------------------------------------------
(***************************************************************************)
(* Listing a code host.  What CompleteOrReported rests on: a container     *)
(* the config names is still to be listed, or was warned about or noted,   *)
(* or all of it that decodes is among the items; and of the container      *)
(* being listed, the pages so far are in the part kept for it.             *)
(***************************************************************************)
ListingFields == {"at", "kind", "host", "todo", "from", "try", "part", "got", "warned", "dropped",
                  "probe", "records", "skipped"}
Current == listing.host[Head(listing.todo)]
Todo == {listing.todo[n] : n \in DOMAIN listing.todo}
AllGot(c) == \A i \in ItemsOf(c) : i.decodes => i \in listing.got

\* What CompleteOrReported leaves out.
SetApart ==
    \/ listing.kind = "gitea" /\ PageServed < PerPage
    \/ listing.kind = "gerrit" /\ \E c \in AllContainers("gerrit") : \E i \in ItemsOf(c) : ~i.decodes

HostInv ==
    /\ listing = [f \in ListingFields |-> listing[f]]
    /\ listing.at \in {"new", "projects", "pages", "compiled", "failed"}
    /\ listing.try \in 1..MaxAttempts
    /\ hostFaults \in 0..MaxHostFaults
    /\ listing.at = "new" => listing.from = 0
    /\ listing.at # "new" => listing.kind \in HostKinds /\ listing.host \in HostWorlds
    /\ listing.at = "projects" => listing.kind = "azuredevops"
    /\ listing.at \in {"projects", "pages"} =>
          /\ listing.todo \in Seq(AllContainers(listing.kind))
          /\ listing.from \in Nat
          /\ listing.todo # <<>> =>
                /\ listing.from <= Len(Current)
                /\ \A n \in 1..listing.from : Current[n].decodes => Current[n] \in listing.part
          /\ ~SetApart => \A c \in AllContainers(listing.kind) :
                             c \in Todo \cup listing.warned \cup listing.dropped \/ AllGot(c)
    /\ listing.at = "compiled" => CompleteOrReported

-----------------------------------------------------------------------------
\* The containers of a kind are named by the config, and are listed in a sequence.
LEMMA ContainersAreNamed ==
    ASSUME NEW k \in HostKinds
    PROVE  /\ Containers(k) \in Seq(AllContainers(k))
           /\ \A c \in AllContainers(k) : \E n \in DOMAIN HostContainers : c = HostContainers[n]
<1> DEFINE Names == {HostContainers[n] : n \in DOMAIN HostContainers}
<1>1. HostContainers \in Seq(Names)
  BY HostConstants, Zenon DEF IsSequence
<1>2. CASE k \in {"gerrit", "gitURL", "gitFile"}
  <2>1. HostContainers # <<>> /\ Containers(k) = SubSeq(HostContainers, 1, 1)
    BY <1>2, HostConstants, Zenon DEF Containers
  <2>2. Len(HostContainers) \in Nat /\ Len(HostContainers) >= 1 /\ 1 \in DOMAIN HostContainers
    BY <1>1, <2>1
  <2>3. /\ SubSeq(HostContainers, 1, 1) \in Seq(Names) /\ Len(SubSeq(HostContainers, 1, 1)) = 1
        /\ SubSeq(HostContainers, 1, 1)[1] = HostContainers[1]
    BY <1>1, <2>2
  <2>4. Containers(k) \in Seq(AllContainers(k))
    BY <2>1, <2>3 DEF AllContainers
  <2> QED
    BY <2>1, <2>2, <2>3, <2>4 DEF AllContainers
<1>3. CASE k \notin {"gerrit", "gitURL", "gitFile"}
  <2>1. Containers(k) = HostContainers
    BY <1>3, Zenon DEF Containers
  <2> QED
    BY <1>1, <2>1, Zenon DEF AllContainers
<1> QED
  BY <1>2, <1>3, Zenon

\* What a request is about: the container at the head of the list, the rest of it, and
\* the page an "ok" brings.
LEMMA PageOfRest ==
    ASSUME HostInv, listing.at \in {"projects", "pages"}, listing.todo # <<>>
    PROVE  /\ Head(listing.todo) \in AllContainers(listing.kind)
           /\ Len(Current) \in Nat /\ DOMAIN Current = 1..Len(Current)
           /\ listing.from \in 0..Len(Current)
           /\ Len(Remaining(listing)) = Len(Current) - listing.from
           /\ DOMAIN Remaining(listing) = 1..Len(Remaining(listing))
           /\ \A n \in 1..Len(Remaining(listing)) : Remaining(listing)[n] = Current[listing.from + n]
           /\ Len(Page(listing)) = IF Len(Remaining(listing)) < PageSize
                                   THEN Len(Remaining(listing)) ELSE PageSize
           /\ DOMAIN Page(listing) = 1..Len(Page(listing))
           /\ \A n \in 1..Len(Page(listing)) : Page(listing)[n] = Current[listing.from + n]
           /\ PageSize \in Nat \ {0}
<1> DEFINE Items == {Current[n] : n \in DOMAIN Current}
           rest == Remaining(listing)
           size == IF Len(rest) < PageSize THEN Len(rest) ELSE PageSize
<1>1. /\ listing.todo \in Seq(AllContainers(listing.kind)) /\ listing.from \in Nat
      /\ listing.from <= Len(Current)
      /\ listing.kind \in HostKinds /\ listing.host \in HostWorlds
  BY Zenon DEF HostInv
<1>2. Head(listing.todo) \in AllContainers(listing.kind)
  BY <1>1
<1>3. PICK n \in DOMAIN HostContainers : Head(listing.todo) = HostContainers[n]
  BY <1>1, <1>2, ContainersAreNamed, Zenon
<1>4. Current \in Seq(Items)
  BY <1>1, <1>3, HostConstants, Zenon DEF IsSequence, Current
<1>5. PICK s, f : s = Current /\ f = listing.from
  OBVIOUS
<1>6. rest = SubSeq(s, f + 1, Len(s))
  BY <1>5, Zenon DEF Remaining, Current
<1>7. s \in Seq(Items) /\ Len(s) \in Nat /\ f \in Nat /\ f <= Len(s) /\ DOMAIN s = 1..Len(s)
  BY <1>1, <1>4, <1>5
<1> HIDE DEF Items, rest
<1>8. /\ rest \in Seq(Items) /\ Len(rest) = Len(s) - f /\ DOMAIN rest = 1..Len(rest)
      /\ \A m \in 1..Len(rest) : rest[m] = s[f + m]
  <2>0. PICK b \in Nat : b = Len(s)
    BY <1>7, Zenon
  <2>1. PICK a \in Nat : a = f + 1 /\ b = Len(s)
    BY <1>7, <2>0
  <2>2. rest = SubSeq(s, a, b)
    BY <2>1, <1>6, Zenon
  <2>3. rest \in Seq(Items)
    BY <1>7, <2>1, <2>2
  <2>4. CASE a <= b
    <3>1. Len(rest) = b - a + 1
      BY <1>7, <2>1, <2>2, <2>4
    <3>2. \A m \in 1..(b - a + 1) : rest[m] = s[a + m - 1]
      BY <1>7, <2>1, <2>2, <2>4
    <3>3. Len(rest) = Len(s) - f
      BY <3>1, <2>1, <1>7
    <3>4. ASSUME NEW m \in 1..Len(rest) PROVE rest[m] = s[f + m]
      <4>1. m \in 1..(b - a + 1) /\ a + m - 1 = f + m
        BY <3>1, <2>1, <1>7
      <4> QED
        BY <4>1, <3>2, Zenon
    <3> QED
      BY <2>3, <3>3, <3>4
  <2>5. CASE ~(a <= b)
    <3>1. Len(rest) = 0
      BY <1>7, <2>1, <2>2, <2>5
    <3>2. f \in Nat /\ f <= b /\ b = Len(s) /\ ~(f + 1 <= b)
      BY <1>7, <2>1, <2>5, Zenon
    <3>3. Len(s) - f = 0
      BY <3>2
    <3> QED
      BY <3>1, <3>3, <2>3
  <2> QED
    BY <2>4, <2>5, Zenon
<1>9. PageSize \in Nat \ {0}
  BY HostConstants, Zenon DEF PageSize
<1>10. size \in 0..Len(rest)
  BY <1>7, <1>8, <1>9
<1>11. Page(listing) = SubSeq(rest, 1, size)
  BY Zenon DEF Page, rest
<1> HIDE DEF size
<1>12. /\ Len(Page(listing)) = size /\ DOMAIN Page(listing) = 1..size
       /\ \A m \in 1..size : Page(listing)[m] = rest[m]
  BY <1>8, <1>10, <1>11
<1>13. \A m \in 1..Len(Page(listing)) : Page(listing)[m] = s[f + m]
  BY <1>8, <1>10, <1>12
<1> QED
  BY <1>2, <1>5, <1>7, <1>8, <1>9, <1>12, <1>13 DEF rest, size

\* The fields a step leaves alone, and the shape of the record.
Keeps == /\ listing' = [f \in ListingFields |-> listing'[f]]
         /\ listing'.kind = listing.kind /\ listing'.host = listing.host
         /\ hostFaults' \in 0..MaxHostFaults

\* A container is left: warned about, noted, or listed to its end.
Leaves == /\ listing'.at = listing.at /\ listing'.todo = Tail(listing.todo) /\ listing'.from = 0
          /\ listing'.try = 1
          /\ listing.got \subseteq listing'.got /\ listing.warned \subseteq listing'.warned
          /\ listing.dropped \subseteq listing'.dropped

LEMMA ContainerIsLeft ==
    ASSUME HostInv, Keeps, Leaves, listing.at = "pages", listing.todo # <<>>,
           \/ Head(listing.todo) \in listing'.warned \cup listing'.dropped
           \/ SetApart
           \/ \A n \in 1..Len(Current) : Current[n].decodes => Current[n] \in listing'.got
    PROVE  HostInv'
<1>1. PICK k : k = listing.kind
  OBVIOUS
<1>2. /\ listing.todo \in Seq(AllContainers(k)) /\ k \in HostKinds /\ listing.host \in HostWorlds
      /\ ~SetApart => \A c \in AllContainers(k) :
                         c \in Todo \cup listing.warned \cup listing.dropped \/ AllGot(c)
  BY <1>1, Zenon DEF HostInv
<1>3. /\ Tail(listing.todo) \in Seq(AllContainers(k))
      /\ Len(Tail(listing.todo)) = Len(listing.todo) - 1
      /\ \A n \in 1..Len(Tail(listing.todo)) : Tail(listing.todo)[n] = listing.todo[n + 1]
      /\ Len(listing.todo) \in Nat \ {0} /\ DOMAIN listing.todo = 1..Len(listing.todo)
      /\ Head(listing.todo) = listing.todo[1]
  BY <1>2
<1>4. ASSUME NEW c \in Todo, c # Head(listing.todo) PROVE c \in Todo'
  <2>1. PICK n \in 1..Len(listing.todo) : c = listing.todo[n]
    BY <1>3, Zenon DEF Todo
  <2>2. n # 1
    BY <2>1, <1>3, <1>4, Zenon
  <2>3. n - 1 \in 1..Len(Tail(listing.todo)) /\ (n - 1) + 1 = n
    BY <2>1, <2>2, <1>3
  <2>4. Tail(listing.todo)[n - 1] = c
    BY <2>1, <2>3, <1>3, Zenon
  <2>5. DOMAIN Tail(listing.todo) = 1..Len(Tail(listing.todo))
    BY <1>3
  <2>6. n - 1 \in DOMAIN Tail(listing.todo)
    BY <2>3, <2>5, Zenon
  <2> QED
    BY <2>4, <2>6, Zenon DEF Todo, Leaves
<1>5. SetApart' = SetApart
  BY DEF SetApart, Keeps, ItemsOf
<1>6. ASSUME NEW c \in AllContainers(k), ~SetApart
      PROVE  c \in (Todo \cup listing.warned \cup listing.dropped)' \/ AllGot(c)'
  <2>1. CASE c \in Todo /\ c # Head(listing.todo)
    BY <2>1, <1>4, Zenon
  <2>2. CASE c \in listing.warned \cup listing.dropped
    BY <2>2, Zenon DEF Leaves
  <2>3. CASE AllGot(c)
    BY <2>3 DEF AllGot, ItemsOf, Keeps, Leaves
  <2>4. CASE c = Head(listing.todo)
    <3>1. CASE c \in listing'.warned \cup listing'.dropped
      BY <3>1, Zenon
    <3>2. CASE \A n \in 1..Len(Current) : Current[n].decodes => Current[n] \in listing'.got
      <4>1. DOMAIN Current = 1..Len(Current)
        BY PageOfRest, Zenon
      <4>2. ItemsOf(c)' = {Current[n] : n \in DOMAIN Current}
        BY <2>4, Zenon DEF ItemsOf, Keeps, Current
      <4> QED
        BY <3>2, <4>1, <4>2, Zenon DEF AllGot
    <3> QED
      BY <2>4, <3>1, <3>2, <1>6, Zenon
  <2> QED
    BY <2>1, <2>2, <2>3, <2>4, <1>2, <1>6, Zenon
<1>7. /\ listing'.try \in 1..MaxAttempts
      /\ listing'.at = "pages" /\ listing'.kind = k /\ listing'.host \in HostWorlds
      /\ listing'.todo \in Seq(AllContainers(k)) /\ listing'.from = 0
  BY <1>1, <1>2, <1>3 DEF Keeps, Leaves, MaxAttempts
<1>8. listing'.todo # <<>> =>
          /\ listing'.from <= Len(Current)'
          /\ \A n \in 1..listing'.from : Current'[n].decodes => Current'[n] \in listing'.part
  <2> SUFFICES ASSUME listing'.todo # <<>> PROVE listing'.from <= Len(Current)'
    BY <1>7
  <2>1. Head(listing'.todo) \in AllContainers(k)
    BY <1>7
  <2>2. PICK n \in DOMAIN HostContainers : Head(listing'.todo) = HostContainers[n]
    BY <2>1, <1>2, ContainersAreNamed, Zenon
  <2>3. PICK h \in HostWorlds : h = listing'.host
    BY <1>7, Zenon
  <2>4. PICK s : s = h[HostContainers[n]]
    OBVIOUS
  <2>5. s \in Seq({s[m] : m \in DOMAIN s})
    BY <2>4, HostConstants, SMTT(30) DEF IsSequence
  <2>6. Len(s) \in Nat
    BY <2>5
  <2>7. Current' = s
    BY <2>2, <2>3, <2>4, Zenon DEF Current
  <2> QED
    BY <2>6, <2>7, <1>7
<1> QED
  BY <1>2, <1>5, <1>6, <1>7, <1>8 DEF HostInv, Keeps

\* Another page follows, and this one is kept.
LEMMA PageIsKept ==
    ASSUME HostInv, Keeps, listing.at = "pages", listing.todo # <<>>,
           listing'.at = "pages", listing'.todo = listing.todo, listing'.try = 1,
           listing'.from = listing.from + Len(Page(listing)),
           listing'.part = listing.part \cup Decoded(Page(listing)),
           listing'.got = listing.got, listing'.warned = listing.warned,
           listing'.dropped = listing.dropped
    PROVE  HostInv'
<1>1. PICK k : k = listing.kind
  OBVIOUS
<1>2. PICK s, f, p : s = Current /\ f = listing.from /\ p = Page(listing)
  OBVIOUS
<1>3. /\ Len(s) \in Nat /\ f \in 0..Len(s) /\ PageSize \in Nat \ {0}
      /\ Len(Remaining(listing)) = Len(s) - f
      /\ Len(p) = IF Len(Remaining(listing)) < PageSize THEN Len(Remaining(listing)) ELSE PageSize
      /\ DOMAIN p = 1..Len(p) /\ \A n \in 1..Len(p) : p[n] = s[f + n]
  BY <1>2, PageOfRest, Zenon
<1>4. Len(p) \in Nat /\ f + Len(p) \in 0..Len(s)
  BY <1>3
<1>5. \A n \in 1..f : s[n].decodes => s[n] \in listing.part
  BY <1>2, Zenon DEF HostInv
<1>6. ASSUME NEW n \in 1..(f + Len(p)), s[n].decodes PROVE s[n] \in listing'.part
  <2>1. CASE n <= f
    BY <2>1, <1>3, <1>5, <1>6
  <2>2. CASE ~(n <= f)
    <3>1. n - f \in 1..Len(p) /\ f + (n - f) = n
      BY <2>2, <1>3, <1>4
    <3>2. p[n - f] = s[n] /\ n - f \in DOMAIN p
      BY <3>1, <1>3, Zenon
    <3>3. s[n] \in Decoded(p)
      BY <3>2, <1>6, Zenon DEF Decoded
    <3> QED
      BY <3>3, <1>2, Zenon
  <2> QED
    BY <2>1, <2>2, Zenon
<1>7. Current' = s
  BY <1>2, Zenon DEF Current, Keeps
<1>8. SetApart' = SetApart /\ Todo' = Todo /\ \A c \in AllContainers(k) : AllGot(c)' = AllGot(c)
  BY DEF SetApart, Keeps, ItemsOf, Todo, AllGot
<1>9. /\ listing.todo \in Seq(AllContainers(k)) /\ k \in HostKinds /\ listing.host \in HostWorlds
      /\ ~SetApart => \A c \in AllContainers(k) :
                         c \in Todo \cup listing.warned \cup listing.dropped \/ AllGot(c)
  BY <1>1, Zenon DEF HostInv
<1>10. /\ listing'.from \in Nat /\ listing'.from <= Len(Current')
       /\ \A n \in 1..listing'.from : Current'[n].decodes => Current'[n] \in listing'.part
  BY <1>2, <1>4, <1>6, <1>7, <1>3
<1>11. /\ listing'.try \in 1..MaxAttempts /\ listing'.kind = k
  BY <1>1 DEF MaxAttempts, Keeps
<1> QED
  BY <1>8, <1>9, <1>10, <1>11, Zenon DEF HostInv, Keeps

-----------------------------------------------------------------------------
\* A page brings all there is left of the container.
Brings(page) == \A n \in (listing.from + 1)..Len(Current) : \E m \in DOMAIN page : page[m] = Current[n]

\* What the answer to a request for a page may make of the listing.
PageOutcome ==
    \/ listing.try < MaxAttempts /\ listing' = [listing EXCEPT !.try = listing.try + 1]
    \/ listing' = Failed(listing)
    \/ listing' = Warned(listing)
    \/ listing' = NextContainer([listing EXCEPT !.dropped = listing.dropped \cup {Head(listing.todo)}])
    \/ \E page : (SetApart \/ Brings(page)) /\ listing' = Listed(listing, page)
    \/ listing' = More(listing, Page(listing))

\* The rest of a container, and its last page, bring all there is left.
LEMMA LastPageBrings ==
    ASSUME HostInv, listing.at = "pages", listing.todo # <<>>
    PROVE  Brings(Remaining(listing)) /\ (~HasNext(listing) => Brings(Page(listing)))
<1>1. PICK s, f, r, p : s = Current /\ f = listing.from /\ r = Remaining(listing) /\ p = Page(listing)
  OBVIOUS
<1>2. /\ Len(s) \in Nat /\ f \in 0..Len(s) /\ PageSize \in Nat \ {0}
      /\ Len(r) = Len(s) - f /\ DOMAIN r = 1..Len(r) /\ \A n \in 1..Len(r) : r[n] = s[f + n]
      /\ Len(p) = IF Len(r) < PageSize THEN Len(r) ELSE PageSize
      /\ DOMAIN p = 1..Len(p) /\ \A n \in 1..Len(p) : p[n] = s[f + n]
  BY <1>1, PageOfRest, Zenon
<1>3. ASSUME NEW n \in (f + 1)..Len(s) PROVE n - f \in 1..Len(r) /\ f + (n - f) = n
  BY <1>2
<1>4. \A n \in (f + 1)..Len(s) : n - f \in DOMAIN r /\ r[n - f] = s[n]
  BY <1>2, <1>3, Zenon
<1>5. ~HasNext(listing) => Len(p) = Len(r)
  BY <1>1, <1>2 DEF HasNext
<1>6. ~HasNext(listing) => \A n \in (f + 1)..Len(s) : n - f \in DOMAIN p /\ p[n - f] = s[n]
  BY <1>2, <1>3, <1>5, Zenon
<1> QED
  BY <1>1, <1>4, <1>6, Zenon DEF Brings

\* gitea stops at a page shorter than it asked for, which is the last one of a server
\* that gives as much; Gerrit stops at a page whose last entry carries no flag, which
\* is the last one when all of them decode.
LEMMA ShortPageBrings ==
    ASSUME HostInv, listing.at = "pages", listing.todo # <<>>, ~SetApart
    PROVE  /\ listing.kind = "gitea" /\ ~(Len(Page(listing)) >= PerPage) => Brings(Page(listing))
           /\ /\ listing.kind = "gerrit"
              /\ ~(HasNext(listing) /\ Page(listing)[Len(Page(listing))].decodes)
              => Brings(Page(listing))
<1>1. PICK s, f, p, left : /\ s = Current /\ f = listing.from /\ p = Page(listing)
                          /\ left = Len(Remaining(listing))
  BY SMTT(30)
<1>2. /\ Len(s) \in Nat /\ f \in 0..Len(s) /\ PageSize \in Nat \ {0} /\ left = Len(s) - f
      /\ Len(p) = IF left < PageSize THEN left ELSE PageSize
      /\ HasNext(listing) <=> left > PageSize
  BY <1>1, PageOfRest, Zenon DEF HasNext
<1>3. ASSUME listing.kind = "gitea", ~(Len(p) >= PerPage) PROVE ~HasNext(listing)
  <2>1. PageSize = PerPage /\ PerPage \in Nat
    BY <1>3, HostConstants, Zenon DEF SetApart, PageSize
  <2>2. left \in Nat
    BY <1>2
  <2>3. ~(left > PageSize)
    BY <2>1, <2>2, <1>2, <1>3
  <2> QED
    BY <2>3, <1>2, Zenon
<1>4. ASSUME listing.kind = "gerrit", HasNext(listing) PROVE p[Len(p)].decodes
  <2>0. left \in Nat
    BY <1>2
  <2>1. left \in Nat /\ left > PageSize
    BY <2>0, <1>2, <1>4, Zenon
  <2>2. Len(p) = PageSize
    BY <2>1, <1>2
  <2>3. Len(p) \in 1..Len(p) /\ f + Len(p) \in 1..Len(s)
    BY <2>1, <2>2, <1>2
  <2>4. /\ DOMAIN s = 1..Len(s) /\ \A n \in 1..Len(p) : p[n] = s[f + n]
        /\ Head(listing.todo) \in AllContainers(listing.kind)
    BY <1>1, PageOfRest, Zenon
  <2>5. p[Len(p)] \in ItemsOf(Head(listing.todo))
    BY <2>3, <2>4, <1>1, Zenon DEF ItemsOf, Current
  <2> QED
    BY <2>5, <2>4, <1>4, Zenon DEF SetApart
<1> QED
  BY <1>1, <1>3, <1>4, LastPageBrings, Zenon

\* Every client does one of these with the answer to a request for a page.
LEMMA ClientOutcome ==
    ASSUME HostInv, listing.at = "pages", listing.todo # <<>>, NEW a, listing' = FetchOnce(listing, a)
    PROVE  PageOutcome
<1>1. ASSUME NEW page, Brings(page), listing' = Listed(listing, page) PROVE PageOutcome
  BY <1>1, Zenon DEF PageOutcome
<1>2. Brings(Remaining(listing)) /\ (~HasNext(listing) => Brings(Page(listing)))
  BY LastPageBrings, Zenon
<1>3. CASE listing.kind \in {"github", "gitlab"}
  <2>1. listing' = CASE a = "missing" -> Warned(listing)
      [] a \notin {"ok", "missing"} \/ (a = "ok" /\ ~AllDecode(Page(listing))) -> Failed(listing)
      [] a = "ok" /\ AllDecode(Page(listing)) /\ HasNext(listing) -> More(listing, Page(listing))
      [] OTHER -> Listed(listing, Page(listing))
    BY <1>3, Zenon DEF FetchOnce, FetchReposForOrg, FetchProjectsForGroup
  <2>2. \/ listing' = Warned(listing) \/ listing' = Failed(listing)
        \/ listing' = More(listing, Page(listing))
        \/ listing' = Listed(listing, Page(listing)) /\ ~HasNext(listing)
    BY <2>1, Zenon
  <2> QED
    BY <2>2, <1>1, <1>2, Zenon DEF PageOutcome
<1>4. CASE listing.kind = "gitea"
  <2>1. listing' = FetchReposForGiteaOrg(listing, a)
    BY <1>4, Zenon DEF FetchOnce
  <2>2. \/ listing.try < MaxAttempts /\ listing' = [listing EXCEPT !.try = listing.try + 1]
        \/ listing' = Warned(listing) \/ listing' = Failed(listing)
        \/ listing' = More(listing, Page(listing))
        \/ listing' = Listed(listing, Page(listing)) /\ ~(Len(Page(listing)) >= PerPage)
    BY <2>1, Zenon DEF FetchReposForGiteaOrg, WithRetry
  <2>3. ~(Len(Page(listing)) >= PerPage) => SetApart \/ Brings(Page(listing))
    BY <1>4, ShortPageBrings, Zenon
  <2> QED
    BY <2>2, <2>3, Zenon DEF PageOutcome
<1>5. CASE listing.kind = "bitbucketCloud"
  <2>1. listing' = FetchReposForBitbucketCloudWorkspace(listing, a)
    BY <1>5, Zenon DEF FetchOnce
  <2>2. \/ listing.try < MaxAttempts /\ listing' = [listing EXCEPT !.try = listing.try + 1]
        \/ listing' = Warned(listing) \/ listing' = Failed(listing)
        \/ listing' = Listed(listing, Remaining(listing))
    BY <2>1, Zenon DEF FetchReposForBitbucketCloudWorkspace, WithRetry
  <2> QED
    BY <2>2, <1>1, <1>2, Zenon DEF PageOutcome
<1>6. CASE listing.kind = "bitbucketServer"
  <2>1. listing' = FetchReposForBitbucketServerProject(listing, a)
    BY <1>6, Zenon DEF FetchOnce
  <2>2. \/ listing' = Warned(listing) \/ listing' = Failed(listing)
        \/ listing' = More(listing, Page(listing))
        \/ listing' = Listed(listing, Page(listing)) /\ ~HasNext(listing)
    BY <2>1, Zenon DEF FetchReposForBitbucketServerProject
  <2> QED
    BY <2>2, <1>1, <1>2, Zenon DEF PageOutcome
<1>7. CASE listing.kind = "gerrit"
  <2>1. listing' = FetchAllGerritProjects(listing, a)
    BY <1>7, Zenon DEF FetchOnce
  <2>2. \/ listing' = Failed(listing) \/ listing' = More(listing, Page(listing))
        \/ /\ listing' = Listed(listing, Page(listing))
           /\ ~(HasNext(listing) /\ Page(listing)[Len(Page(listing))].decodes)
    BY <2>1, Zenon DEF FetchAllGerritProjects
  <2>3. ~(HasNext(listing) /\ Page(listing)[Len(Page(listing))].decodes) => SetApart \/ Brings(Page(listing))
    BY <1>7, ShortPageBrings, Zenon
  <2> QED
    BY <2>2, <2>3, Zenon DEF PageOutcome
<1>8. CASE listing.kind = "azuredevops"
  <2>1. listing' = FetchAzureDevOpsRepositories(listing, a)
    BY <1>8, Zenon DEF FetchOnce
  <2>2. \/ listing.try < MaxAttempts /\ listing' = [listing EXCEPT !.try = listing.try + 1]
        \/ listing' = NextContainer([listing EXCEPT !.dropped = listing.dropped \cup {Head(listing.todo)}])
        \/ listing' = Listed(listing, Remaining(listing))
    BY <2>1, Zenon DEF FetchAzureDevOpsRepositories, WithRetry
  <2> QED
    BY <2>2, <1>1, <1>2, Zenon DEF PageOutcome
<1>9. CASE listing.kind \notin {"github", "gitlab", "gitea", "bitbucketCloud", "bitbucketServer",
                                "gerrit", "azuredevops"}
  <2>1. listing' = CompileGenericGitURL(listing, a)
    BY <1>9, Zenon DEF FetchOnce
  <2>2. listing' = Warned(listing) \/ listing' = Listed(listing, Remaining(listing))
    BY <2>1, Zenon DEF CompileGenericGitURL
  <2> QED
    BY <2>2, <1>1, <1>2, Zenon DEF PageOutcome
<1> QED
  BY <1>3, <1>4, <1>5, <1>6, <1>7, <1>8, <1>9, Zenon

\* The fields of a listing after a page, and after a container.
Follows(l) == /\ l = [f \in ListingFields |-> l[f]]
              /\ l.kind = listing.kind /\ l.host = listing.host /\ l.at = listing.at /\ l.try = 1
Passes(l) == Follows(l) /\ l.todo = Tail(listing.todo) /\ l.from = 0

\* The ways to leave a container: what each adds, and that it leaves the rest alone.
LEMMA FieldsOfPassing ==
    ASSUME HostInv, NEW page
    PROVE  /\ LET l == Listed(listing, page) IN
                 /\ Passes(l) /\ l.got = listing.got \cup listing.part \cup Decoded(page)
                 /\ l.warned = listing.warned /\ l.dropped = listing.dropped
           /\ LET l == Warned(listing) IN
                 /\ Passes(l) /\ l.warned = listing.warned \cup {Head(listing.todo)}
                 /\ l.got = listing.got /\ l.dropped = listing.dropped
           /\ LET l == NextContainer([listing EXCEPT !.dropped = listing.dropped \cup {Head(listing.todo)}]) IN
                 /\ Passes(l) /\ l.dropped = listing.dropped \cup {Head(listing.todo)}
                 /\ l.got = listing.got /\ l.warned = listing.warned
<1>1. listing = [f \in ListingFields |-> listing[f]]
  BY Zenon DEF HostInv
<1> QED
  BY <1>1, ZenonT(60) DEF Listed, Warned, NextContainer, Passes, Follows, ListingFields

\* A page that more follow.
LEMMA FieldsOfMore ==
    ASSUME HostInv, NEW page
    PROVE  LET l == More(listing, page) IN
              /\ Follows(l) /\ l.todo = listing.todo /\ l.from = listing.from + Len(page)
              /\ l.part = listing.part \cup Decoded(page)
              /\ l.got = listing.got /\ l.warned = listing.warned /\ l.dropped = listing.dropped
<1>1. listing = [f \in ListingFields |-> listing[f]]
  BY Zenon DEF HostInv
<1> QED
  BY <1>1, Zenon DEF More, Follows, ListingFields

\* Every answer to a request for a page keeps the invariant.
LEMMA PageIsAnswered ==
    ASSUME HostInv, listing.at = "pages", listing.todo # <<>>, PageOutcome,
           hostFaults' \in 0..MaxHostFaults
    PROVE  HostInv'
<1>1. listing = [f \in ListingFields |-> listing[f]] /\ listing.try \in 1..MaxAttempts
  BY Zenon DEF HostInv
<1>2. CASE listing.try < MaxAttempts /\ listing' = [listing EXCEPT !.try = listing.try + 1]
  <2>1. listing.try + 1 \in 1..MaxAttempts
    BY <1>1, <1>2 DEF MaxAttempts
  <2>2. /\ listing' = [f \in ListingFields |-> listing'[f]]
        /\ listing'.try = listing.try + 1 /\ listing'.at = listing.at /\ listing'.kind = listing.kind
        /\ listing'.host = listing.host /\ listing'.todo = listing.todo /\ listing'.from = listing.from
        /\ listing'.part = listing.part /\ listing'.got = listing.got
        /\ listing'.warned = listing.warned /\ listing'.dropped = listing.dropped
    BY <1>1, <1>2, Zenon DEF ListingFields
  <2>3. /\ Current' = Current /\ SetApart' = SetApart /\ Todo' = Todo
        /\ \A c \in AllContainers(listing.kind) : AllGot(c)' = AllGot(c)
    BY <2>2 DEF Current, SetApart, Todo, AllGot, ItemsOf
  <2> QED
    BY <2>1, <2>2, <2>3, Zenon DEF HostInv
<1>3. CASE listing' = Failed(listing)
  <2>1. /\ listing' = [f \in ListingFields |-> listing'[f]]
        /\ listing'.at = "failed" /\ listing'.try = listing.try
        /\ listing'.kind = listing.kind /\ listing'.host = listing.host
    BY <1>1, <1>3, Zenon DEF Failed, ListingFields
  <2> QED
    BY <2>1, Zenon DEF HostInv
<1>4. CASE listing' = Warned(listing)
  <2>1. /\ Passes(listing') /\ listing'.warned = listing.warned \cup {Head(listing.todo)}
        /\ listing'.got = listing.got /\ listing'.dropped = listing.dropped
    BY <1>4, FieldsOfPassing, Zenon
  <2>2. Keeps /\ Leaves
    BY <2>1, Zenon DEF Passes, Follows, Keeps, Leaves
  <2> QED
    BY <2>1, <2>2, ContainerIsLeft, Zenon
<1>5. CASE listing' = NextContainer([listing EXCEPT !.dropped = listing.dropped \cup {Head(listing.todo)}])
  <2>1. /\ Passes(listing') /\ listing'.dropped = listing.dropped \cup {Head(listing.todo)}
        /\ listing'.got = listing.got /\ listing'.warned = listing.warned
    BY <1>5, FieldsOfPassing, Zenon
  <2>2. Keeps /\ Leaves
    BY <2>1, Zenon DEF Passes, Follows, Keeps, Leaves
  <2> QED
    BY <2>1, <2>2, ContainerIsLeft, Zenon
<1>6. ASSUME NEW page, SetApart \/ Brings(page), listing' = Listed(listing, page) PROVE HostInv'
  <2>1. /\ Passes(listing') /\ listing'.got = listing.got \cup listing.part \cup Decoded(page)
        /\ listing'.warned = listing.warned /\ listing'.dropped = listing.dropped
    BY <1>6, FieldsOfPassing, Zenon
  <2>2. Keeps /\ Leaves
    BY <2>1, Zenon DEF Passes, Follows, Keeps, Leaves
  <2>3. ASSUME Brings(page), NEW n \in 1..Len(Current), Current[n].decodes
        PROVE  Current[n] \in listing'.got
    <3>1. listing.from \in 0..Len(Current) /\ Len(Current) \in Nat
      BY PageOfRest, Zenon
    <3>2. CASE n \in 1..listing.from
      BY <3>2, <2>1, <2>3, Zenon DEF HostInv
    <3>3. CASE n \notin 1..listing.from
      <4>1. n \in (listing.from + 1)..Len(Current)
        BY <3>1, <3>3
      <4>2. Current[n] \in Decoded(page)
        BY <4>1, <2>3, Zenon DEF Brings, Decoded
      <4> QED
        BY <4>2, <2>1, Zenon
    <3> QED
      BY <3>2, <3>3, Zenon
  <2> QED
    BY <1>6, <2>2, <2>3, ContainerIsLeft, Zenon
<1>7. CASE listing' = More(listing, Page(listing))
  <2>1. /\ Follows(listing') /\ listing'.todo = listing.todo
        /\ listing'.from = listing.from + Len(Page(listing))
        /\ listing'.part = listing.part \cup Decoded(Page(listing))
        /\ listing'.got = listing.got /\ listing'.warned = listing.warned
        /\ listing'.dropped = listing.dropped
    BY <1>7, FieldsOfMore, Zenon
  <2>2. Keeps /\ listing'.at = "pages" /\ listing'.try = 1
    BY <2>1, Zenon DEF Follows, Keeps
  <2> QED
    BY <2>1, <2>2, PageIsKept, Zenon
<1> QED
  BY <1>2, <1>3, <1>4, <1>5, <1>6, <1>7, Zenon DEF PageOutcome

\* The list of an organisation's projects: retried, given up, or all to be listed.
LEMMA ProjectsAreAnswered ==
    ASSUME HostInv, listing.at = "projects", NEW a, listing' = FetchOnce(listing, a),
           hostFaults' \in 0..MaxHostFaults
    PROVE  HostInv'
<1>1. listing = [f \in ListingFields |-> listing[f]] /\ listing.try \in 1..MaxAttempts
  BY Zenon DEF HostInv
<1>2. listing' = FetchAzureDevOpsProjects(listing, a)
  <2>1. listing.kind = "azuredevops"
    BY Zenon DEF HostInv
  <2> QED
    BY <2>1, Zenon DEF FetchOnce
<1>3. PICK k : k = listing.kind
  OBVIOUS
<1>4. k \in HostKinds /\ listing.host \in HostWorlds /\ listing.from \in Nat
  BY <1>3, Zenon DEF HostInv
<1>5. CASE \/ listing.try < MaxAttempts /\ listing' = [listing EXCEPT !.try = listing.try + 1]
           \/ listing' = [listing EXCEPT !.at = "pages", !.try = 1]
  <2>1. /\ listing' = [f \in ListingFields |-> listing'[f]]
        /\ listing'.at \in {"projects", "pages"} /\ listing'.kind = listing.kind
        /\ listing'.host = listing.host /\ listing'.todo = listing.todo /\ listing'.from = listing.from
        /\ listing'.part = listing.part /\ listing'.got = listing.got
        /\ listing'.warned = listing.warned /\ listing'.dropped = listing.dropped
    BY <1>1, <1>5, Zenon DEF ListingFields
  <2>2. listing'.try = 1 \/ (listing.try < MaxAttempts /\ listing'.try = listing.try + 1)
    BY <1>1, <1>5, Zenon DEF ListingFields
  <2>3. listing'.try \in 1..MaxAttempts
    BY <1>1, <2>2 DEF MaxAttempts
  <2>4. /\ Current' = Current /\ SetApart' = SetApart /\ Todo' = Todo
        /\ \A c \in AllContainers(listing.kind) : AllGot(c)' = AllGot(c)
    BY <2>1 DEF Current, SetApart, Todo, AllGot, ItemsOf
  <2> QED
    BY <2>1, <2>3, <2>4, Zenon DEF HostInv
<1>6. CASE listing' = Failed(listing)
  <2>1. /\ listing' = [f \in ListingFields |-> listing'[f]]
        /\ listing'.at = "failed" /\ listing'.try = listing.try
        /\ listing'.kind = listing.kind /\ listing'.host = listing.host
    BY <1>1, <1>6, Zenon DEF Failed, ListingFields
  <2> QED
    BY <2>1, Zenon DEF HostInv
<1>7. CASE listing' = [listing EXCEPT !.at = "pages", !.todo = <<>>, !.warned = AllContainers(listing.kind)]
  <2>1. /\ listing' = [f \in ListingFields |-> listing'[f]]
        /\ listing'.at = "pages" /\ listing'.kind = k /\ listing'.host = listing.host
        /\ listing'.try = listing.try /\ listing'.todo = <<>> /\ listing'.from = listing.from
        /\ listing'.warned = AllContainers(k)
    BY <1>1, <1>3, <1>7, Zenon DEF ListingFields
  <2>2. listing'.todo \in Seq(AllContainers(k))
    BY <2>1
  <2> QED
    BY <2>1, <2>2, <1>1, <1>4, Zenon DEF HostInv
<1>8. \/ listing.try < MaxAttempts /\ listing' = [listing EXCEPT !.try = listing.try + 1]
      \/ listing' = [listing EXCEPT !.at = "pages", !.try = 1]
      \/ listing' = Failed(listing)
      \/ listing' = [listing EXCEPT !.at = "pages", !.todo = <<>>, !.warned = AllContainers(listing.kind)]
  BY <1>2, Zenon DEF FetchAzureDevOpsProjects, WithRetry
<1> QED
  BY <1>5, <1>6, <1>7, <1>8, Zenon

\* A listing begins with all its containers still to be listed.
LEMMA ListingBegins == ASSUME HostInv, BeginListing PROVE HostInv'
<1>1. PICK k \in HostKinds, h \in HostWorlds :
         listing' = [listing EXCEPT !.kind = k, !.host = h, !.todo = Containers(k),
                        !.at = IF k = "azuredevops" THEN "projects" ELSE "pages"]
  BY Zenon DEF BeginListing
<1>2. listing = [f \in ListingFields |-> listing[f]] /\ listing.try \in 1..MaxAttempts
  BY Zenon DEF HostInv
<1>3. /\ listing' = [f \in ListingFields |-> listing'[f]]
      /\ listing'.at = (IF k = "azuredevops" THEN "projects" ELSE "pages")
      /\ listing'.kind = k /\ listing'.host = h /\ listing'.try = listing.try
      /\ listing'.todo = Containers(k) /\ listing'.from = listing.from
  BY <1>1, <1>2, Zenon DEF ListingFields
<1>4. listing.from = 0 /\ hostFaults' = hostFaults
  BY Zenon DEF HostInv, BeginListing
<1>5. Containers(k) \in Seq(AllContainers(k)) /\ Todo' = AllContainers(k)
  BY <1>3, ContainersAreNamed DEF Todo, AllContainers
<1>6. listing'.todo # <<>> => 0 <= Len(Current')
  <2> SUFFICES ASSUME listing'.todo # <<>> PROVE 0 <= Len(Current')
    OBVIOUS
  <2>1. Head(Containers(k)) \in AllContainers(k)
    BY <1>3, <1>5
  <2>2. PICK n \in DOMAIN HostContainers : Head(Containers(k)) = HostContainers[n]
    BY <2>1, ContainersAreNamed, Zenon
  <2>3. PICK s : s = h[HostContainers[n]]
    OBVIOUS
  <2>4. s \in Seq({s[m] : m \in DOMAIN s})
    BY <2>3, HostConstants, Zenon DEF IsSequence
  <2>5. Len(s) \in Nat
    BY <2>4
  <2>6. Current' = s
    BY <2>2, <2>3, <1>3, Zenon DEF Current
  <2> QED
    BY <2>5, <2>6
<1> QED
  BY <1>2, <1>3, <1>4, <1>5, <1>6 DEF HostInv

\* Every item that was listed has a record, is reported as left out, or is ruled out.
LEMMA ItemsHaveRecords ==
    ASSUME NEW k \in HostKinds, NEW got, NEW probe, NEW i \in got
    PROVE  \/ i \in {r.item : r \in CompileFromConfig(k, got, probe)} \cup Reported(k, got)
           \/ k = "github" /\ ShouldExcludeRepo(i)
           \/ k = "gerrit" /\ (("projects" \in HostRules /\ ~i.nameMatches)
                               \/ ("repos" \in HostRules /\ i.nameMatches))
<1>1. ASSUME NEW public, NEW fork, NEW archived PROVE Record(i, public, fork, archived).item = i
  BY Zenon DEF Record
<1>2. CASE k \in {"github", "gitlab", "gitea", "gerrit", "gitURL"}
  <2>1. CASE k = "github"
    <3>1. CompileFromConfig(k, got, probe) = {CreateGitHubRepoRecord(j) : j \in {x \in got : ~ShouldExcludeRepo(x)}}
      BY <2>1, Zenon DEF CompileFromConfig, CompileGitHubConfig, GetGitHubReposFromConfig
    <3>2. CreateGitHubRepoRecord(i).item = i
      BY <1>1 DEF CreateGitHubRepoRecord
    <3> QED
      BY <2>1, <3>1, <3>2, Zenon
  <2>2. CASE k = "gitlab"
    <3>1. CompileFromConfig(k, got, probe) = {CreateGitLabRepoRecord(j) : j \in got}
      BY <2>2, Zenon DEF CompileFromConfig, CompileGitLabConfig
    <3>2. CreateGitLabRepoRecord(i).item = i
      BY <1>1, Zenon DEF CreateGitLabRepoRecord
    <3> QED
      BY <3>1, <3>2, Zenon
  <2>3. CASE k = "gitea"
    <3>1. CompileFromConfig(k, got, probe) = {CreateGiteaRepoRecord(j) : j \in got}
      BY <2>3, Zenon DEF CompileFromConfig, CompileGiteaConfig
    <3>2. CreateGiteaRepoRecord(i).item = i
      BY <1>1 DEF CreateGiteaRepoRecord
    <3> QED
      BY <3>1, <3>2, Zenon
  <2>4. CASE k = "gerrit"
    <3>1. CompileFromConfig(k, got, probe) = {CreateGerritRepoRecord(j) : j \in FetchGerritProjectsViaHTTP(got)}
      BY <2>4, Zenon DEF CompileFromConfig, CompileGerritConfig
    <3>2. CreateGerritRepoRecord(i).item = i
      BY <1>1, Zenon DEF CreateGerritRepoRecord
    <3>3. \/ i \in FetchGerritProjectsViaHTTP(got)
          \/ "projects" \in HostRules /\ ~i.nameMatches
          \/ "repos" \in HostRules /\ i.nameMatches
      BY Zenon DEF FetchGerritProjectsViaHTTP
    <3> QED
      BY <2>4, <3>1, <3>2, <3>3, Zenon
  <2>5. CASE k = "gitURL"
    <3>1. CompileFromConfig(k, got, probe) = {Record(j, TRUE, FALSE, FALSE) : j \in got}
      BY <2>5, Zenon DEF CompileFromConfig
    <3>2. Record(i, TRUE, FALSE, FALSE) \in CompileFromConfig(k, got, probe)
      BY <3>1, Zenon
    <3>3. Record(i, TRUE, FALSE, FALSE).item = i
      BY Zenon DEF Record
    <3> QED
      BY <3>2, <3>3, Zenon
  <2> QED
    BY <1>2, <2>1, <2>2, <2>3, <2>4, <2>5, Zenon
<1>3. CASE k \in {"bitbucketCloud", "bitbucketServer", "azuredevops", "gitFile"}
  <2>1. Reported(k, got) = got \ Complete(got)
    BY <1>3, Zenon DEF Reported
  <2>2. CASE k = "bitbucketCloud"
    <3>1. CompileFromConfig(k, got, probe) = {CreateBitbucketCloudRepoRecord(j) : j \in Complete(got)}
      BY <2>2, Zenon DEF CompileFromConfig, CompileBitbucketCloudConfig
    <3>2. CreateBitbucketCloudRepoRecord(i).item = i
      BY Zenon DEF CreateBitbucketCloudRepoRecord, Record
    <3> QED
      BY <2>1, <3>1, <3>2, Zenon
  <2>3. CASE k = "bitbucketServer"
    <3>1. CompileFromConfig(k, got, probe) = {CreateBitbucketServerRepoRecord(j, probe) : j \in Complete(got)}
      BY <2>3, Zenon DEF CompileFromConfig, CompileBitbucketServerConfig
    <3>2. CreateBitbucketServerRepoRecord(i, probe).item = i
      BY <1>1, Zenon DEF CreateBitbucketServerRepoRecord
    <3> QED
      BY <2>1, <3>1, <3>2, Zenon
  <2>4. CASE k = "azuredevops"
    <3>1. CompileFromConfig(k, got, probe) = {CreateAzureDevOpsRepoRecord(j) : j \in Complete(got)}
      BY <2>4, Zenon DEF CompileFromConfig, CompileAzureDevOpsConfig
    <3>2. CreateAzureDevOpsRepoRecord(i).item = i
      BY Zenon DEF CreateAzureDevOpsRepoRecord, Record
    <3> QED
      BY <2>1, <3>1, <3>2, Zenon
  <2>5. CASE k = "gitFile"
    <3>1. CompileFromConfig(k, got, probe) = {Record(j, FALSE, FALSE, FALSE) : j \in Complete(got)}
      BY <2>5, Zenon DEF CompileFromConfig, CompileGenericGitFile, Complete
    <3> QED
      BY <2>1, <3>1, <1>1, ZenonT(60)
  <2> QED
    BY <1>3, <2>2, <2>3, <2>4, <2>5, Zenon
<1> QED
  BY <1>2, <1>3, HostConstants, Zenon

\* A compiled listing accounts for every item.
LEMMA ListingIsCompiled == ASSUME HostInv, CompileRecords PROVE HostInv'
<1>1. PICK probe \in BOOLEAN :
         listing' = [listing EXCEPT !.at = "compiled", !.probe = probe,
                        !.records = CompileFromConfig(listing.kind, listing.got, probe),
                        !.skipped = Reported(listing.kind, listing.got)]
  BY Zenon DEF CompileRecords
<1>2. PICK k, got, records, skipped :
         /\ k = listing.kind /\ got = listing.got
         /\ records = CompileFromConfig(k, got, probe) /\ skipped = Reported(k, got)
  OBVIOUS
<1>3. listing = [f \in ListingFields |-> listing[f]] /\ listing.try \in 1..MaxAttempts
  BY Zenon DEF HostInv
<1>4. /\ listing' = [f \in ListingFields |-> listing'[f]]
      /\ listing'.at = "compiled" /\ listing'.records = records /\ listing'.skipped = skipped
      /\ listing'.kind = k /\ listing'.host = listing.host /\ listing'.try = listing.try
      /\ listing'.warned = listing.warned /\ listing'.dropped = listing.dropped
  BY <1>1, <1>2, <1>3, Zenon DEF ListingFields
<1>5. /\ k \in HostKinds /\ listing.host \in HostWorlds
      /\ ~SetApart => \A c \in AllContainers(k) :
                         c \in Todo \cup listing.warned \cup listing.dropped \/ AllGot(c)
  BY <1>2, Zenon DEF HostInv, CompileRecords
<1>6. Todo = {}
  BY DEF Todo, CompileRecords
<1>7. SetApart' = SetApart /\ \A c \in AllContainers(k) : ItemsOf(c)' = ItemsOf(c)
  BY <1>2, <1>4 DEF SetApart, ItemsOf
<1>8. ASSUME ~SetApart, NEW c \in AllContainers(k), NEW i \in ItemsOf(c), i.decodes
      PROVE  Accounted(c, i)'
  <2>1. CASE c \in listing.warned \cup listing.dropped
    BY <2>1, <1>4, Zenon DEF Accounted
  <2>2. CASE AllGot(c)
    <3>1. i \in got
      BY <2>2, <1>2, <1>8, Zenon DEF AllGot
    <3>2. \/ i \in {r.item : r \in records} \cup skipped
          \/ k = "github" /\ ShouldExcludeRepo(i)
          \/ k = "gerrit" /\ (("projects" \in HostRules /\ ~i.nameMatches)
                              \/ ("repos" \in HostRules /\ i.nameMatches))
      BY <3>1, <1>2, <1>5, ItemsHaveRecords, Zenon
    <3>3. CASE i \in {r.item : r \in records} \cup skipped
      BY <3>3, <1>4, Zenon DEF Accounted
    <3>4. CASE k = "github" /\ ShouldExcludeRepo(i)
      BY <3>4, <1>4, Zenon DEF Accounted, RuledOut
    <3>5. CASE k = "gerrit" /\ (("projects" \in HostRules /\ ~i.nameMatches)
                                \/ ("repos" \in HostRules /\ i.nameMatches))
      BY <3>5, <1>4, Zenon DEF Accounted, RuledOut
    <3> QED
      BY <3>2, <3>3, <3>4, <3>5, Zenon
  <2> QED
    BY <2>1, <2>2, <1>5, <1>6, <1>8, Zenon
<1>9. CompleteOrReported'
  <2>1. SUFFICES ASSUME ~SetApart, NEW c \in AllContainers(k), NEW i \in ItemsOf(c), i.decodes
                 PROVE  Accounted(c, i)'
    BY <1>4, <1>7, Zenon DEF CompleteOrReported, SetApart
  <2> QED
    BY <2>1, <1>8, Zenon
<1>10. hostFaults' = hostFaults
  BY Zenon DEF CompileRecords
<1> QED
  BY <1>3, <1>4, <1>5, <1>9, <1>10, Zenon DEF HostInv

\* The invariant holds in every reachable state.
THEOREM HostInvHolds == HostSpec => []HostInv
<1>1. HostInit => HostInv
  <2> SUFFICES ASSUME HostInit PROVE HostInv
    OBVIOUS
  <2>1. /\ listing.at = "new" /\ listing.try = 1 /\ listing.from = 0 /\ hostFaults = 0
    BY Zenon DEF HostInit
  <2>2. listing = [f \in ListingFields |-> listing[f]]
    BY Zenon DEF HostInit, ListingFields
  <2>3. 1 \in 1..MaxAttempts /\ 0 \in 0..MaxHostFaults
    BY HostConstants DEF MaxAttempts
  <2> QED
    BY <2>1, <2>2, <2>3, Zenon DEF HostInv
<1>2. HostInv /\ [HostNext]_hostVars => HostInv'
  <2> SUFFICES ASSUME HostInv, [HostNext]_hostVars PROVE HostInv'
    OBVIOUS
  <2>1. ASSUME NEW a, AtRequest, listing' = FetchOnce(listing, a), hostFaults' \in 0..MaxHostFaults
        PROVE  HostInv'
    <3>1. CASE listing.at = "projects"
      BY <2>1, <3>1, ProjectsAreAnswered, Zenon
    <3>2. CASE listing.at = "pages" /\ listing.todo # <<>>
      BY <2>1, <3>2, ClientOutcome, PageIsAnswered, Zenon
    <3> QED
      BY <2>1, <3>1, <3>2, Zenon DEF AtRequest
  <2>2. CASE RequestAnswered
    <3>1. AtRequest /\ hostFaults' \in 0..MaxHostFaults
      BY <2>2, Zenon DEF RequestAnswered, HostInv
    <3>2. CASE listing.kind = "gitFile"
      <4>1. listing.at = "pages" /\ listing.todo # <<>>
        BY <3>1, <3>2, Zenon DEF AtRequest, HostInv
      <4>2. listing' = Listed(listing, Remaining(listing))
        BY <2>2, <3>2, Zenon DEF RequestAnswered
      <4>3. PageOutcome
        BY <4>1, <4>2, LastPageBrings, Zenon DEF PageOutcome
      <4> QED
        BY <3>1, <4>1, <4>3, PageIsAnswered, Zenon
    <3>3. CASE listing.kind # "gitFile"
      BY <2>1, <2>2, <3>1, <3>3, Zenon DEF RequestAnswered
    <3> QED
      BY <3>2, <3>3, Zenon
  <2>3. CASE RequestFails
    <3>1. PICK a \in Answers : listing' = FetchOnce(listing, a)
      BY <2>3, Zenon DEF RequestFails
    <3>2. AtRequest /\ hostFaults' \in 0..MaxHostFaults
      BY <2>3, HostConstants DEF RequestFails, HostInv
    <3> QED
      BY <2>1, <3>1, <3>2, Zenon
  <2>4. CASE UNCHANGED hostVars
    <3>1. listing' = listing /\ hostFaults' = hostFaults
      BY <2>4, Zenon DEF hostVars
    <3>2. /\ Current' = Current /\ SetApart' = SetApart /\ Todo' = Todo
          /\ CompleteOrReported' = CompleteOrReported
          /\ \A c \in AllContainers(listing.kind) : AllGot(c)' = AllGot(c)
      BY <3>1 DEF Current, SetApart, Todo, AllGot, ItemsOf, CompleteOrReported, Accounted, RuledOut
    <3> QED
      BY <3>1, <3>2, Zenon DEF HostInv
  <2> QED
    BY <2>2, <2>3, <2>4, ListingBegins, ListingIsCompiled, Zenon DEF HostNext
<1> QED
  BY <1>1, <1>2, PTL DEF HostSpec

\* Nothing a host holds is lost without a word: whatever it answers and however it
\* pages, a listing that ends without an error has a record for every repository of
\* the containers the config names, a warning or a rule that excludes it.
THEOREM ListingsAreComplete == HostSpec => []CompleteOrReported
<1>1. HostInv => CompleteOrReported
  BY Zenon DEF HostInv, CompleteOrReported
<1> QED
  BY <1>1, HostInvHolds, PTL

\* A listing never tries a request more than defaultRetryMaxAttempts times.
THEOREM ListingTypesHold == HostSpec => []HostTypeOK
<1>1. HostInv => HostTypeOK
  BY Zenon DEF HostInv, HostTypeOK
<1> QED
  BY <1>1, HostInvHolds, PTL

-----------------------------------------------------------------------------
(***************************************************************************)
(* The sync of a connection.                                               *)
(***************************************************************************)
SyncStatuses == {"none", "PENDING", "IN_PROGRESS", "COMPLETED", "FAILED"}

SyncRun == [at : {"idle", "mark", "load", "compile", "repo", "link", "stamp"},
            job : SyncJobs \cup {"none"}, todo : SUBSET HostRepos,
            listed : SUBSET HostRepos, repo : HostRepos \cup {"none"}]

SyncTypes ==
    /\ syncJob \in [SyncJobs -> SyncStatuses]
    /\ scheduling \in [SyncJobs -> {"new", "inserted", "done", "dead"}]
    /\ sync \in [SyncWorkers -> SyncRun]
    /\ redelivered \subseteq SyncJobs
    /\ \A w \in SyncWorkers : sync[w].at # "idle" => sync[w].job \in SyncJobs

\* The row of a job is there only once ScheduleConnectionSync has inserted it.
RowFollowsInsert == \A j \in SyncJobs : scheduling[j] = "new" => syncJob[j] = "none"

\* Two runs of one job mean that asynq delivered it twice.
OneRun ==
    \A v, w \in SyncWorkers :
        v # w /\ sync[v].at # "idle" /\ sync[w].at # "idle" /\ sync[v].job = sync[w].job
            => sync[v].job \in redelivered

\* A run that has work left before markCompleted is not of a COMPLETED job.
WorkLeft ==
    \A w \in SyncWorkers :
        sync[w].at \notin {"idle", "mark", "stamp"} /\ syncJob[sync[w].job] = "COMPLETED"
            => sync[w].job \in redelivered

SyncInv == SyncTypes /\ RowFollowsInsert /\ OneRun /\ WorkLeft

\* A worker that goes on with its run, or ends it, keeps the invariant if it writes
\* the row of its own job only, COMPLETED only on its way to the stamp.
LEMMA SyncWorkerMoves ==
    ASSUME SyncInv, NEW w \in SyncWorkers, NEW run \in SyncRun,
           sync[w].at # "idle",
           sync' = [sync EXCEPT ![w] = run],
           run.at = "idle" \/ run.job = sync[w].job,
           UNCHANGED <<scheduling, redelivered>>,
           syncJob' \in [SyncJobs -> SyncStatuses],
           \A j \in SyncJobs : j # sync[w].job \/ syncJob[j] = "none" => syncJob'[j] = syncJob[j],
           syncJob'[sync[w].job] = "COMPLETED" =>
              \/ syncJob[sync[w].job] = "COMPLETED"
              \/ run.at = "stamp" /\ sync[w].at \notin {"mark", "stamp"},
           run.at \notin {"idle", "mark", "stamp"} =>
              \/ sync[w].at \notin {"mark", "stamp"}
              \/ syncJob'[sync[w].job] # "COMPLETED"
    PROVE  SyncInv'
<1>1. /\ sync[w].job \in SyncJobs
      /\ sync' \in [SyncWorkers -> SyncRun]
      /\ sync'[w] = run
      /\ \A v \in SyncWorkers : v # w => sync'[v] = sync[v]
  BY Zenon DEF SyncInv, SyncTypes
<1>2. SyncTypes'
  BY <1>1, Zenon DEF SyncInv, SyncTypes
<1>3. RowFollowsInsert'
  BY <1>1, Zenon DEF SyncInv, SyncTypes, RowFollowsInsert
<1>4. OneRun'
  BY <1>1 DEF SyncInv, OneRun
<1>5. WorkLeft'
  <2> SUFFICES ASSUME NEW v \in SyncWorkers,
                      sync'[v].at \notin {"idle", "mark", "stamp"},
                      syncJob'[sync'[v].job] = "COMPLETED"
               PROVE  sync'[v].job \in redelivered
    BY Zenon DEF WorkLeft
  <2>1. CASE v = w
    <3>1. run.job = sync[w].job /\ run.at \notin {"idle", "mark", "stamp"}
      BY <1>1, <2>1, Zenon
    <3>2. syncJob[sync[w].job] = "COMPLETED" /\ sync[w].at \notin {"mark", "stamp"}
      BY <1>1, <2>1, <3>1, Zenon
    <3> QED BY <1>1, <2>1, <3>1, <3>2, Zenon DEF SyncInv, WorkLeft
  <2>2. CASE v # w
    <3>1. sync'[v] = sync[v] /\ sync[v].job \in SyncJobs
      BY <1>1, <2>2, Zenon DEF SyncInv, SyncTypes
    <3>2. CASE sync[v].job = sync[w].job
      BY <2>2, <3>1, <3>2, Zenon DEF SyncInv, OneRun
    <3>3. CASE sync[v].job # sync[w].job
      BY <3>1, <3>3, Zenon DEF SyncInv, WorkLeft
    <3> QED BY <3>2, <3>3, Zenon
  <2> QED BY <2>1, <2>2, Zenon
<1> QED BY <1>2, <1>3, <1>4, <1>5, Zenon DEF SyncInv

\* What ContinueSync and EndSync leave of the run of worker w.
LEMMA RunEffects ==
    ASSUME SyncInv, NEW w \in SyncWorkers, sync[w].at # "idle"
    PROVE  /\ sync[w].job \in SyncJobs
           /\ NoRun \in SyncRun /\ NoRun.at = "idle"
           /\ \A ok : EndSync(w, ok) => sync' = [sync EXCEPT ![w] = NoRun]
           /\ \A at \in {"mark", "load", "compile", "repo", "link", "stamp"} :
                 /\ [sync[w] EXCEPT !.at = at] \in SyncRun
                 /\ [sync[w] EXCEPT !.at = at].at = at
                 /\ [sync[w] EXCEPT !.at = at].job = sync[w].job
                 /\ ContinueSync(w, at) =>
                       sync' = [sync EXCEPT ![w] = [sync[w] EXCEPT !.at = at]]
<1>1. sync[w] \in SyncRun /\ sync[w].job \in SyncJobs
  BY Zenon DEF SyncInv, SyncTypes
<1>2. NoRun \in SyncRun /\ NoRun.at = "idle"
  BY Zenon DEF NoRun, SyncRun
<1>3. ASSUME NEW ok, EndSync(w, ok) PROVE sync' = [sync EXCEPT ![w] = NoRun]
  BY <1>3, Zenon DEF EndSync
<1>4. ASSUME NEW at \in {"mark", "load", "compile", "repo", "link", "stamp"}
      PROVE  /\ [sync[w] EXCEPT !.at = at] \in SyncRun
             /\ [sync[w] EXCEPT !.at = at].at = at
             /\ [sync[w] EXCEPT !.at = at].job = sync[w].job
             /\ ContinueSync(w, at) =>
                   sync' = [sync EXCEPT ![w] = [sync[w] EXCEPT !.at = at]]
  <2>1. [sync[w] EXCEPT !.at = at] \in SyncRun
    BY <1>1, Zenon DEF SyncRun
  <2>2. [sync[w] EXCEPT !.at = at].at = at /\ [sync[w] EXCEPT !.at = at].job = sync[w].job
    BY <1>1, Zenon DEF SyncRun
  <2>3. ContinueSync(w, at) => sync' = [sync EXCEPT ![w] = [sync[w] EXCEPT !.at = at]]
    BY Zenon DEF ContinueSync
  <2> QED BY <2>1, <2>2, <2>3, Zenon
<1> QED BY <1>1, <1>2, <1>3, <1>4, Zenon

\* A run that ends: its worker is idle, and its row is as it was or FAILED.
LEMMA SyncRunEnds ==
    ASSUME SyncInv, NEW w \in SyncWorkers, sync[w].at # "idle", NEW ok,
           EndSync(w, ok), UNCHANGED <<scheduling, redelivered>>,
           MarkSyncFailed(w) \/ UNCHANGED syncJob
    PROVE  SyncInv'
<1>1. /\ sync[w].job \in SyncJobs
      /\ NoRun \in SyncRun /\ NoRun.at = "idle"
      /\ sync' = [sync EXCEPT ![w] = NoRun]
  BY RunEffects, Zenon
<1>2. /\ syncJob' \in [SyncJobs -> SyncStatuses]
      /\ \A j \in SyncJobs : j # sync[w].job \/ syncJob[j] = "none" => syncJob'[j] = syncJob[j]
      /\ syncJob'[sync[w].job] = "COMPLETED" => syncJob[sync[w].job] = "COMPLETED"
  BY <1>1, Zenon DEF MarkSyncFailed, SyncInv, SyncTypes, SyncStatuses
<1> QED BY <1>1, <1>2, SyncWorkerMoves, Zenon

\* A run that goes on to its next statement without writing its row.
LEMMA SyncRunGoesOn ==
    ASSUME SyncInv, NEW w \in SyncWorkers, NEW run \in SyncRun,
           sync[w].at \notin {"idle", "mark", "stamp"},
           sync' = [sync EXCEPT ![w] = run],
           run.job = sync[w].job,
           UNCHANGED <<syncJob, scheduling, redelivered>>
    PROVE  SyncInv'
<1>1. syncJob' \in [SyncJobs -> SyncStatuses]
  BY Zenon DEF SyncInv, SyncTypes
<1> QED BY <1>1, SyncWorkerMoves, Zenon

\* The steps of a worker, each statement of Handle and each way it fails.
LEMMA SyncWorkerSteps ==
    ASSUME SyncInv, NEW w \in SyncWorkers,
           \/ SyncStep(w) \/ SyncFails(w) \/ SyncStatementFails(w)
           \/ SyncWorkerDies(w) \/ SyncLeaseLost(w)
    PROVE  SyncInv'
<1> DEFINE J == sync[w].job
<1>0. sync \in [SyncWorkers -> SyncRun] /\ sync[w] \in SyncRun
  BY Zenon DEF SyncInv, SyncTypes
<1>1. CASE MarkInProgress(w)
  <2>1. sync[w].at = "mark" /\ UNCHANGED <<scheduling, redelivered>>
    BY <1>1, Zenon DEF MarkInProgress
  <2>2. CASE syncJob[J] \in {"PENDING", "IN_PROGRESS"}
    <3>1. syncJob' = [syncJob EXCEPT ![J] = "IN_PROGRESS"] /\ ContinueSync(w, "load")
      BY <1>1, <2>2, Zenon DEF MarkInProgress
    <3>2. PICK run \in SyncRun : /\ run.at = "load" /\ run.job = J
                                 /\ sync' = [sync EXCEPT ![w] = run]
      BY <2>1, <3>1, RunEffects, Zenon
    <3>3. J \in SyncJobs
      BY <2>1, RunEffects, Zenon
    <3>4. /\ syncJob' \in [SyncJobs -> SyncStatuses]
          /\ \A j \in SyncJobs : j # J \/ syncJob[j] = "none" => syncJob'[j] = syncJob[j]
          /\ syncJob'[J] # "COMPLETED"
      BY <2>2, <3>1, <3>3, Zenon DEF SyncInv, SyncTypes, SyncStatuses
    <3> QED BY <2>1, <3>2, <3>4, SyncWorkerMoves, Zenon
  <2>3. CASE syncJob[J] \notin {"PENDING", "IN_PROGRESS"}
    <3>1. EndSync(w, FALSE) /\ UNCHANGED syncJob
      BY <1>1, <2>3, Zenon DEF MarkInProgress
    <3> QED BY <2>1, <3>1, SyncRunEnds, Zenon
  <2> QED BY <2>2, <2>3, Zenon
<1>2. CASE LoadConnection(w)
  <2>1. sync[w].at = "load" /\ UNCHANGED <<scheduling, redelivered>>
    BY <1>2, Zenon DEF LoadConnection
  <2>2. CASE connection = "live"
    <3>1. ContinueSync(w, "compile") /\ UNCHANGED syncJob
      BY <1>2, <2>2, Zenon DEF LoadConnection
    <3>2. PICK run \in SyncRun : run.job = J /\ sync' = [sync EXCEPT ![w] = run]
      BY <2>1, <3>1, RunEffects, ZenonT(60)
    <3> QED BY <2>1, <3>1, <3>2, SyncRunGoesOn, Zenon
  <2>3. CASE connection # "live"
    <3>1. EndSync(w, FALSE) /\ MarkSyncFailed(w)
      BY <1>2, <2>3, Zenon DEF LoadConnection
    <3> QED BY <2>1, <3>1, SyncRunEnds, Zenon
  <2> QED BY <2>2, <2>3, Zenon
<1>3. CASE Compile(w)
  <2>1. sync[w].at = "compile" /\ UNCHANGED <<syncJob, scheduling, redelivered>>
    BY <1>3, Zenon DEF Compile
  <2>2. PICK listed \in SUBSET HostRepos :
           sync' = [sync EXCEPT ![w] = [sync[w] EXCEPT !.at = "repo", !.todo = listed,
                                                       !.listed = listed]]
    BY <1>3, <1>0, Zenon DEF Compile
  <2>3. [sync[w] EXCEPT !.at = "repo", !.todo = listed, !.listed = listed] \in SyncRun
    BY <1>0, Zenon DEF SyncRun
  <2>4. [sync[w] EXCEPT !.at = "repo", !.todo = listed, !.listed = listed].job = J
    BY <1>0, Zenon DEF SyncRun
  <2> QED BY <2>1, <2>2, <2>3, <2>4, SyncRunGoesOn, Zenon
<1>4. CASE UpsertRepoRow(w)
  <2>1. sync[w].at = "repo" /\ UNCHANGED <<syncJob, scheduling, redelivered>>
    BY <1>4, Zenon DEF UpsertRepoRow
  <2>2. PICK r \in sync[w].todo :
           sync' = [sync EXCEPT ![w] = [sync[w] EXCEPT !.at = "link",
                                            !.todo = sync[w].todo \ {r}, !.repo = r]]
    BY <1>4, <1>0, Zenon DEF UpsertRepoRow
  <2>3. r \in HostRepos
    BY <1>0, Zenon DEF SyncRun
  <2>4. [sync[w] EXCEPT !.at = "link", !.todo = sync[w].todo \ {r}, !.repo = r] \in SyncRun
    BY <1>0, <2>3, Zenon DEF SyncRun
  <2>5. [sync[w] EXCEPT !.at = "link", !.todo = sync[w].todo \ {r}, !.repo = r].job = J
    BY <1>0, Zenon DEF SyncRun
  <2> QED BY <2>1, <2>2, <2>4, <2>5, SyncRunGoesOn, Zenon
<1>5. CASE LinkRepo(w)
  <2>1. sync[w].at = "link" /\ UNCHANGED <<scheduling, redelivered>>
    BY <1>5, Zenon DEF LinkRepo
  <2>2. CASE connection = "live"
    <3>1. ContinueSync(w, "repo") /\ UNCHANGED syncJob
      BY <1>5, <2>2, Zenon DEF LinkRepo
    <3>2. PICK run \in SyncRun : run.job = J /\ sync' = [sync EXCEPT ![w] = run]
      BY <2>1, <3>1, RunEffects, ZenonT(60)
    <3> QED BY <2>1, <3>1, <3>2, SyncRunGoesOn, Zenon
  <2>3. CASE connection # "live"
    <3>1. EndSync(w, FALSE) /\ MarkSyncFailed(w)
      BY <1>5, <2>3, Zenon DEF LinkRepo
    <3> QED BY <2>1, <3>1, SyncRunEnds, Zenon
  <2> QED BY <2>2, <2>3, Zenon
<1>6. CASE MarkCompleted(w)
  <2>1. sync[w].at = "repo" /\ UNCHANGED <<scheduling, redelivered>>
    BY <1>6, Zenon DEF MarkCompleted
  <2>2. CASE syncJob[J] # "none"
    <3>1. syncJob' = [syncJob EXCEPT ![J] = "COMPLETED"] /\ ContinueSync(w, "stamp")
      BY <1>6, <2>2, Zenon DEF MarkCompleted
    <3>2. PICK run \in SyncRun : /\ run.at = "stamp" /\ run.job = J
                                 /\ sync' = [sync EXCEPT ![w] = run]
      BY <2>1, <3>1, RunEffects, Zenon
    <3>3. J \in SyncJobs
      BY <2>1, RunEffects, Zenon
    <3>4. /\ syncJob' \in [SyncJobs -> SyncStatuses]
          /\ \A j \in SyncJobs : j # J \/ syncJob[j] = "none" => syncJob'[j] = syncJob[j]
      BY <2>2, <3>1, <3>3, Zenon DEF SyncInv, SyncTypes, SyncStatuses
    <3> QED BY <2>1, <3>2, <3>4, SyncWorkerMoves, Zenon
  <2>3. CASE syncJob[J] = "none"
    <3>1. EndSync(w, FALSE) /\ UNCHANGED syncJob
      BY <1>6, <2>3, Zenon DEF MarkCompleted
    <3> QED BY <2>1, <3>1, SyncRunEnds, Zenon
  <2> QED BY <2>2, <2>3, Zenon
<1>7. CASE StampSyncedAt(w)
  <2>1. /\ sync[w].at = "stamp" /\ UNCHANGED <<syncJob, scheduling, redelivered>>
        /\ EndSync(w, connection = "live")
    BY <1>7, Zenon DEF StampSyncedAt
  <2> QED BY <2>1, SyncRunEnds, Zenon
<1>8. CASE SyncFails(w)
  <2>1. /\ sync[w].at # "idle" /\ UNCHANGED <<scheduling, redelivered>>
        /\ EndSync(w, FALSE) /\ MarkSyncFailed(w)
    BY <1>8, Zenon DEF SyncFails
  <2> QED BY <2>1, SyncRunEnds, Zenon
<1>9. CASE SyncStatementFails(w)
  <2>1. /\ sync[w].at # "idle" /\ UNCHANGED <<syncJob, scheduling, redelivered>>
        /\ EndSync(w, FALSE)
    BY <1>9, Zenon DEF SyncStatementFails
  <2> QED BY <2>1, SyncRunEnds, Zenon
<1>10. CASE SyncWorkerDies(w)
  <2>1. /\ sync[w].at # "idle" /\ UNCHANGED <<syncJob, scheduling, redelivered>>
        /\ EndSync(w, FALSE)
    BY <1>10, Zenon DEF SyncWorkerDies
  <2> QED BY <2>1, SyncRunEnds, Zenon
<1>11. CASE SyncLeaseLost(w)
  BY <1>11, Zenon DEF SyncLeaseLost, SyncInv, SyncTypes, RowFollowsInsert, OneRun, WorkLeft
<1> QED BY <1>1, <1>2, <1>3, <1>4, <1>5, <1>6, <1>7, <1>8, <1>9, <1>10, <1>11, Zenon DEF SyncStep

\* Every step keeps the invariant.
LEMMA StepSync == ASSUME SyncInv, [SyncNext]_syncVars PROVE SyncInv'
<1> USE DEF SyncInv
<1>1. ASSUME NEW j \in SyncJobs, InsertSyncJob(j) PROVE SyncInv'
  <2>1. /\ syncJob[j] = "none" /\ UNCHANGED <<sync, redelivered>>
        /\ syncJob' = [syncJob EXCEPT ![j] = "PENDING"]
        /\ scheduling' = [scheduling EXCEPT ![j] = "inserted"]
    BY <1>1, Zenon DEF InsertSyncJob, RowFollowsInsert
  <2>2. SyncTypes'
    BY <2>1, Zenon DEF SyncTypes, SyncStatuses
  <2>3. RowFollowsInsert' /\ OneRun'
    BY <2>1, Zenon DEF SyncTypes, RowFollowsInsert, OneRun
  <2>4. WorkLeft'
    BY <2>1, Zenon DEF SyncTypes, WorkLeft
  <2> QED BY <2>2, <2>3, <2>4, Zenon
<1>2. ASSUME NEW j \in SyncJobs, EnqueueSync(j) \/ SyncSchedulerDies(j) PROVE SyncInv'
  BY <1>2 DEF EnqueueSync, SyncSchedulerDies, SyncTypes, RowFollowsInsert, OneRun, WorkLeft
<1>3. ASSUME NEW j \in SyncJobs, EnqueueSyncFails(j) PROVE SyncInv'
  <2>1. /\ UNCHANGED <<sync, redelivered>>
        /\ syncJob' = [syncJob EXCEPT ![j] = IF @ = "PENDING" THEN "FAILED" ELSE @]
        /\ scheduling' = [scheduling EXCEPT ![j] = "done"]
    BY <1>3, Zenon DEF EnqueueSyncFails
  <2>2. SyncTypes'
    BY <2>1, Zenon DEF SyncTypes, SyncStatuses
  <2>3. RowFollowsInsert' /\ OneRun'
    BY <2>1, Zenon DEF SyncTypes, RowFollowsInsert, OneRun
  <2>4. WorkLeft'
    BY <2>1, Zenon DEF SyncTypes, WorkLeft
  <2> QED BY <2>2, <2>3, <2>4, Zenon
<1>4. CASE ConnectionDeleted
  <2>1. UNCHANGED <<scheduling, sync, redelivered>> /\ syncJob' = [j \in SyncJobs |-> "none"]
    BY <1>4, Zenon DEF ConnectionDeleted
  <2>2. SyncTypes'
    BY <2>1, Zenon DEF SyncTypes, SyncStatuses
  <2>3. RowFollowsInsert' /\ OneRun'
    BY <2>1, Zenon DEF RowFollowsInsert, OneRun
  <2>4. WorkLeft'
    BY <2>1, Zenon DEF SyncTypes, WorkLeft
  <2> QED BY <2>2, <2>3, <2>4, Zenon
<1>5. ASSUME NEW w \in SyncWorkers, TakeSync(w) PROVE SyncInv'
  <2>1. PICK j \in SyncJobs :
           /\ sync' = [sync EXCEPT ![w] = [NoRun EXCEPT !.at = "mark", !.job = j]]
           /\ redelivered' = IF Running(j) = {} THEN redelivered ELSE redelivered \cup {j}
    BY <1>5, Zenon DEF TakeSync
  <2>2. sync[w].at = "idle" /\ UNCHANGED <<syncJob, scheduling>>
    BY <1>5, Zenon DEF TakeSync
  <2>3. PICK run \in SyncRun : run = [NoRun EXCEPT !.at = "mark", !.job = j]
    BY Zenon DEF NoRun, SyncRun
  <2>4. run.at = "mark" /\ run.job = j
    BY <2>3, Zenon DEF NoRun
  <2>5. /\ sync' \in [SyncWorkers -> SyncRun] /\ sync'[w] = run
        /\ \A v \in SyncWorkers : v # w => sync'[v] = sync[v]
    BY <2>1, <2>3, Zenon DEF SyncTypes
  <2>6. redelivered \subseteq redelivered' /\ redelivered' \subseteq SyncJobs
    BY <2>1, Zenon DEF SyncTypes
  <2>7. SyncTypes' /\ RowFollowsInsert' /\ WorkLeft'
    BY <2>2, <2>4, <2>5, <2>6 DEF SyncTypes, RowFollowsInsert, WorkLeft
  <2>8. ASSUME NEW v \in SyncWorkers, v # w, sync[v].at # "idle", sync[v].job = j
        PROVE  j \in redelivered'
    BY <2>1, <2>8, Zenon DEF Running
  <2>9. OneRun'
    BY <2>4, <2>5, <2>6, <2>8 DEF OneRun
  <2> QED BY <2>7, <2>9, Zenon
<1>6. CASE UNCHANGED syncVars
  BY <1>6, Zenon DEF syncVars, SyncTypes, RowFollowsInsert, OneRun, WorkLeft
<1> QED BY <1>1, <1>2, <1>3, <1>4, <1>5, <1>6, SyncWorkerSteps, Zenon DEF SyncNext

\* The types of the rows and the runs, that the row of a job follows its insert,
\* that two runs of one job mean a redelivery, and that a run with work left is not
\* of a COMPLETED job hold in every state, for any numbers of jobs, workers and
\* faults.
THEOREM SyncInvHolds == SyncSpec => []SyncInv
<1>1. SyncInit => SyncInv
  <2> SUFFICES ASSUME SyncInit PROVE SyncInv
    OBVIOUS
  <2>1. NoRun \in SyncRun /\ NoRun.at = "idle"
    BY Zenon DEF NoRun, SyncRun
  <2>2. SyncTypes
    BY <2>1, Zenon DEF SyncInit, SyncTypes, SyncStatuses
  <2>3. RowFollowsInsert /\ OneRun /\ WorkLeft
    BY <2>1, Zenon DEF SyncInit, RowFollowsInsert, OneRun, WorkLeft
  <2> QED BY <2>2, <2>3, Zenon DEF SyncInv
<1> QED BY <1>1, StepSync, PTL DEF SyncSpec

\* A sync that is COMPLETED stays so, or goes with its connection, unless a second
\* run of the same job was going: markFailed and markCompleted write without a guard
\* on the status, and a run that could write has its job to itself.
THEOREM CompletedSyncsStay == SyncSpec => CompletedSyncStays
<1> DEFINE Kept == \A j \in SyncJobs : syncJob[j] = "COMPLETED" /\ j \notin redelivered
                      => syncJob'[j] \in {"COMPLETED", "none"}
<1>1. ASSUME SyncInv, [SyncNext]_syncVars PROVE Kept
  <2> SUFFICES ASSUME NEW j \in SyncJobs, syncJob[j] = "COMPLETED", j \notin redelivered
               PROVE  syncJob'[j] \in {"COMPLETED", "none"}
    OBVIOUS
  <2>0. /\ syncJob \in [SyncJobs -> SyncStatuses]
        /\ \A w \in SyncWorkers : sync[w].at \notin {"idle", "mark", "stamp"} => sync[w].job # j
    BY <1>1, Zenon DEF SyncInv, SyncTypes, WorkLeft
  <2>1. ASSUME NEW i \in SyncJobs,
               \/ InsertSyncJob(i) \/ EnqueueSync(i) \/ EnqueueSyncFails(i)
               \/ SyncSchedulerDies(i)
        PROVE  syncJob'[j] = "COMPLETED"
    BY <1>1, <2>0, <2>1, Zenon DEF InsertSyncJob, EnqueueSync, EnqueueSyncFails, SyncSchedulerDies,
       SyncInv, RowFollowsInsert
  <2>2. CASE ConnectionDeleted
    BY <2>2, Zenon DEF ConnectionDeleted
  <2>3. ASSUME NEW w \in SyncWorkers,
               \/ LoadConnection(w) \/ Compile(w) \/ UpsertRepoRow(w) \/ LinkRepo(w)
               \/ SyncFails(w)
        PROVE  syncJob'[j] = "COMPLETED"
    BY <2>0, <2>3, Zenon DEF LoadConnection, Compile, UpsertRepoRow, LinkRepo, SyncFails, MarkSyncFailed
  <2>4. ASSUME NEW w \in SyncWorkers,
               MarkInProgress(w) \/ MarkCompleted(w) \/ StampSyncedAt(w)
        PROVE  syncJob'[j] = "COMPLETED"
    BY <2>0, <2>4, Zenon DEF MarkInProgress, MarkCompleted, StampSyncedAt
  <2>5. ASSUME NEW w \in SyncWorkers,
               \/ TakeSync(w) \/ SyncStatementFails(w) \/ SyncWorkerDies(w) \/ SyncLeaseLost(w)
        PROVE  syncJob'[j] = "COMPLETED"
    BY <2>5, Zenon DEF TakeSync, SyncStatementFails, SyncWorkerDies, SyncLeaseLost
  <2>6. CASE UNCHANGED syncVars
    BY <2>6, Zenon DEF syncVars
  <2> QED BY <1>1, <2>1, <2>2, <2>3, <2>4, <2>5, <2>6, Zenon DEF SyncNext, SyncStep
<1>2. SyncSpec => [][Kept]_syncVars
  <2>1. SyncInv /\ [SyncNext]_syncVars => [Kept]_syncVars
    BY <1>1, Zenon
  <2> QED BY <2>1, SyncInvHolds, PTL DEF SyncSpec
<1> QED BY <1>2, Zenon DEF CompletedSyncStays

-----------------------------------------------------------------------------
(***************************************************************************)
(* The configuration of an organisation.                                   *)
(***************************************************************************)
Configs == [by : ConfigCalls \cup {Nothing}, refs : SUBSET SecretKeys,
            branches : ConfigCalls \cup {Nothing}]
ConnRow == [name : ConnNames, config : Configs]
ModelRow == [name : ModelNames, config : Configs]

CallRecord ==
    [at : {"new", "replied", "base", "name", "secrets", "write", "refcheck", "clear", "insert"},
     kind : {"", "POST", "PATCH", "BRANCHES", "DELETE", "SECRET", "UNSECRET", "MODELS"},
     id : Nat \cup {Nothing}, name : ConnNames \cup SecretKeys \cup ModelNames \cup {Nothing},
     config : Configs \cup {Nothing}, base : ConnRow \cup {Nothing},
     seen : SUBSET ({"connections", "models"} \cup ModelRow), row : Nat, code : Nat]

\* Which call is at which of its statements, with what in hand.
CallShape(r) ==
    r.at \notin {"new", "replied"} =>
        /\ r.kind \in {"POST", "MODELS"} => r.config \in Configs
        /\ r.kind = "POST" => r.name \in ConnNames
        /\ r.kind = "PATCH" => r.name \in ConnNames \cup {Nothing}
        /\ r.kind \in {"SECRET", "UNSECRET"} => r.name \in SecretKeys
        /\ r.kind = "MODELS" => r.name \in ModelNames
        /\ r.kind \in {"PATCH", "BRANCHES"} /\ r.at # "base" => r.base \in ConnRow
        /\ r.at = "secrets" => r.config \in Configs
        /\ r.at \in {"base", "name"} => r.kind \in {"PATCH", "BRANCHES"}
        /\ r.at \in {"clear", "insert"} => r.kind = "MODELS"
        /\ r.at = "refcheck" => r.kind = "UNSECRET"
        /\ r.at = "secrets" => r.kind \in {"POST", "PATCH", "BRANCHES", "MODELS"}

OrgTypes ==
    /\ conn \in [ConnIds -> ConnRow \cup {Nothing}]
    /\ lastConn \in Nat
    /\ secrets \subseteq SecretKeys
    /\ models \subseteq ModelRow
    /\ orgCall \in [ConfigCalls -> CallRecord]
    /\ orgOverlapped \in BOOLEAN
    /\ \A c \in ConfigCalls : CallShape(orgCall[c])

\* Every key of the rows has a secret.
Resolved(rows, list, keys) ==
    /\ \A i \in ConnIds : rows[i] # Nothing => rows[i].config.refs \subseteq keys
    /\ \A m \in list : m.config.refs \subseteq keys

\* What a call has checked before it writes still holds: the keys of the config it
\* brings and of the row it read, or that nothing uses the key it deletes.
Checked(r, rows, list, keys) ==
    /\ r.at \in {"name", "secrets", "write"} /\ r.kind \in {"PATCH", "BRANCHES"}
          => r.base.config.refs \subseteq keys
    /\ r.at = "write" /\ (r.kind = "POST" \/ (r.kind = "PATCH" /\ r.config # Nothing))
          => r.config.refs \subseteq keys
    /\ r.at \in {"clear", "insert"} => r.config.refs \subseteq keys
    /\ r.at \in {"refcheck", "write"} /\ r.kind = "UNSECRET" =>
          /\ "connections" \in r.seen =>
                \A i \in ConnIds : rows[i] # Nothing => r.name \notin rows[i].config.refs
          /\ "models" \in r.seen => \A m \in list : r.name \notin m.config.refs
    /\ r.at = "write" /\ r.kind = "UNSECRET" => r.seen = {"connections", "models"}

\* Calls that did not overlap: one is open at most, and what it checked holds.
OneAtATime ==
    ~orgOverlapped =>
        /\ \A c, d \in Open(orgCall) : c = d
        /\ Resolved(conn, models, secrets)
        /\ \A c \in ConfigCalls : Checked(orgCall[c], conn, models, secrets)

OrgInv == OrgTypes /\ OneAtATime

\* One call moves to record r: the invariant is kept when what it checked holds
\* afterwards, and when only a call that was open writes.
LEMMA CallMoves ==
    ASSUME OrgInv, NEW c \in ConfigCalls, NEW r \in CallRecord,
           orgCall' = [orgCall EXCEPT ![c] = r],
           orgOverlapped' = (orgOverlapped \/ Crowded(orgCall')),
           CallShape(r),
           conn' \in [ConnIds -> ConnRow \cup {Nothing}], lastConn' \in Nat,
           secrets' \subseteq SecretKeys, models' \subseteq ModelRow,
           c \in Open(orgCall) \/ UNCHANGED <<conn, secrets, models>>,
           ~orgOverlapped => /\ Resolved(conn', models', secrets')
                             /\ Checked(r, conn', models', secrets')
    PROVE  OrgInv'
<1>1. /\ orgCall' \in [ConfigCalls -> CallRecord] /\ orgCall'[c] = r
      /\ \A d \in ConfigCalls : d # c => orgCall'[d] = orgCall[d]
  BY Zenon DEF OrgInv, OrgTypes
<1>2. OrgTypes'
  <2>1. \A d \in ConfigCalls : CallShape(orgCall'[d])
    BY <1>1, Zenon DEF OrgInv, OrgTypes
  <2>2. orgOverlapped' \in BOOLEAN
    OBVIOUS
  <2> QED BY <1>1, <2>1, <2>2, Zenon DEF OrgTypes
<1>3. OneAtATime'
  <2> SUFFICES ASSUME ~orgOverlapped'
               PROVE  /\ \A x, y \in Open(orgCall') : x = y
                      /\ Resolved(conn', models', secrets')
                      /\ \A d \in ConfigCalls : Checked(orgCall'[d], conn', models', secrets')
    BY Zenon DEF OneAtATime
  <2>1. ~orgOverlapped /\ ~Crowded(orgCall')
    BY Zenon
  <2>3. \A x, y \in Open(orgCall') : x = y
    BY <2>1, Zenon DEF Crowded
  <2>4. Resolved(conn', models', secrets') /\ Checked(r, conn', models', secrets')
    BY <2>1, Zenon
  <2>5. ASSUME NEW d \in ConfigCalls PROVE Checked(orgCall'[d], conn', models', secrets')
    <3>1. CASE d = c
      BY <1>1, <2>4, <3>1, Zenon
    <3>2. CASE d # c /\ d \in Open(orgCall)
      <4>1. c \notin Open(orgCall)
        BY <2>1, <3>2, Zenon DEF OrgInv, OneAtATime
      <4>2. Checked(orgCall[d], conn, models, secrets)
        BY <2>1, Zenon DEF OrgInv, OneAtATime
      <4> QED BY <1>1, <3>2, <4>1, <4>2, Zenon
    <3>3. CASE d # c /\ d \notin Open(orgCall)
      BY <1>1, <3>3, Zenon DEF Open, Checked
    <3> QED BY <3>1, <3>2, <3>3, Zenon
  <2> QED BY <2>3, <2>4, <2>5, Zenon
<1> QED BY <1>2, <1>3, Zenon DEF OrgInv

\* The overlap a step notes.
NotesOverlap == orgOverlapped' = (orgOverlapped \/ Crowded(orgCall'))

\* A call is answered; what it wrote leaves every key with a secret.
LEMMA CallAnswered ==
    ASSUME OrgInv, NEW c \in ConfigCalls, NEW code \in Nat, Respond(c, code), NotesOverlap,
           conn' \in [ConnIds -> ConnRow \cup {Nothing}], lastConn' \in Nat,
           secrets' \subseteq SecretKeys, models' \subseteq ModelRow,
           c \in Open(orgCall) \/ UNCHANGED <<conn, secrets, models>>,
           ~orgOverlapped => Resolved(conn', models', secrets')
    PROVE  OrgInv'
<1>1. PICK r \in CallRecord : r = [NewCall EXCEPT !.at = "replied", !.code = code]
  BY Zenon DEF NewCall, CallRecord
<1>2. r.at = "replied"
  BY <1>1, Zenon DEF NewCall
<1>3. orgCall' = [orgCall EXCEPT ![c] = r]
  BY <1>1, Zenon DEF Respond
<1>4. CallShape(r)
  BY <1>2, Zenon DEF CallShape
<1>5. Checked(r, conn', models', secrets')
  BY <1>2, Zenon DEF Checked
<1> QED BY <1>3, <1>4, <1>5, CallMoves, Zenon DEF NotesOverlap

\* A call is answered without writing anything.
LEMMA CallRefused ==
    ASSUME OrgInv, NEW c \in ConfigCalls, NEW code \in Nat, Respond(c, code), NotesOverlap,
           UNCHANGED <<conn, lastConn, secrets, models>>
    PROVE  OrgInv'
<1>1. /\ conn' \in [ConnIds -> ConnRow \cup {Nothing}] /\ lastConn' \in Nat
      /\ secrets' \subseteq SecretKeys /\ models' \subseteq ModelRow
  BY Zenon DEF OrgInv, OrgTypes
<1>2. ~orgOverlapped => Resolved(conn', models', secrets')
  BY Zenon DEF OrgInv, OneAtATime
<1> QED BY <1>1, <1>2, CallAnswered, Zenon

\* A call goes on to its next statement without writing anything.
LEMMA CallGoesOn ==
    ASSUME OrgInv, NEW c \in ConfigCalls, NEW r \in CallRecord,
           orgCall' = [orgCall EXCEPT ![c] = r], NotesOverlap, CallShape(r),
           UNCHANGED <<conn, lastConn, secrets, models>>,
           ~orgOverlapped => Checked(r, conn, models, secrets)
    PROVE  OrgInv'
<1>1. /\ conn' \in [ConnIds -> ConnRow \cup {Nothing}] /\ lastConn' \in Nat
      /\ secrets' \subseteq SecretKeys /\ models' \subseteq ModelRow
  BY Zenon DEF OrgInv, OrgTypes
<1>2. ~orgOverlapped => /\ Resolved(conn', models', secrets')
                        /\ Checked(r, conn', models', secrets')
  BY Zenon DEF OrgInv, OneAtATime
<1> QED BY <1>1, <1>2, CallMoves, Zenon DEF NotesOverlap

\* A call arrives: refused at the gate, or at its first statement with its body.
LEMMA CallAccepted ==
    ASSUME OrgInv, NEW c \in ConfigCalls, NotesOverlap,
           NEW kind \in {"POST", "PATCH", "BRANCHES", "DELETE", "SECRET", "UNSECRET", "MODELS"},
           NEW id \in Nat \cup {Nothing},
           NEW name \in ConnNames \cup SecretKeys \cup ModelNames \cup {Nothing},
           NEW config \in Configs \cup {Nothing},
           NEW at \in {"base", "secrets", "write", "refcheck"},
           Accept(c, kind, id, name, config, at),
           kind \in {"POST", "MODELS"} => config \in Configs /\ at = "secrets",
           kind = "POST" => name \in ConnNames,
           kind = "PATCH" => name \in ConnNames \cup {Nothing},
           kind \in {"SECRET", "UNSECRET"} => name \in SecretKeys,
           kind = "MODELS" => name \in ModelNames,
           kind \in {"PATCH", "BRANCHES"} <=> at = "base",
           kind = "UNSECRET" <=> at = "refcheck",
           kind \in {"DELETE", "SECRET"} => at = "write"
    PROVE  OrgInv'
<1>1. UNCHANGED <<conn, lastConn, secrets, models>>
  BY Zenon DEF Accept
<1>2. PICK who \in {"nobody", "member", "owner"}, wellFormed \in BOOLEAN :
         IF Gate(who, wellFormed) # 0 THEN Respond(c, Gate(who, wellFormed))
         ELSE orgCall' = [orgCall EXCEPT ![c] = [NewCall EXCEPT
                    !.at = at, !.kind = kind, !.id = id, !.name = name, !.config = config]]
  BY Zenon DEF Accept
<1>3. CASE Gate(who, wellFormed) # 0
  <2>1. Gate(who, wellFormed) \in Nat
    BY DEF Gate
  <2>2. PICK code \in Nat : Respond(c, code)
    BY <1>2, <1>3, <2>1, Zenon
  <2> QED BY <1>1, <2>2, CallRefused, Zenon
<1>4. CASE Gate(who, wellFormed) = 0
  <2>1. PICK r \in CallRecord : r = [NewCall EXCEPT
                 !.at = at, !.kind = kind, !.id = id, !.name = name, !.config = config]
    BY ZenonT(60) DEF NewCall, CallRecord
  <2>2. /\ r.at = at /\ r.kind = kind /\ r.name = name /\ r.config = config /\ r.seen = {}
    BY <2>1, Zenon DEF NewCall
  <2>3. orgCall' = [orgCall EXCEPT ![c] = r]
    BY <1>2, <1>4, <2>1, Zenon
  <2>4. CallShape(r)
    BY <2>2, Zenon DEF CallShape
  <2>5. Checked(r, conn, models, secrets)
    BY <2>2, Zenon DEF Checked
  <2> QED BY <1>1, <2>3, <2>4, <2>5, CallGoesOn, Zenon
<1> QED BY <1>3, <1>4, Zenon

\* The ids of rows and of paths are numbers.
LEMMA IdsAreNumbers ==
    ASSUME OrgInv
    PROVE  ConnIds \subseteq Nat /\ Rows \subseteq ConnIds /\ PathIds \subseteq Nat
<1>1. Cardinality(ConfigCalls) \in Nat
  BY OrgConstants, Zenon
<1>2. ConnIds \subseteq Nat
  BY <1>1 DEF ConnIds
<1>3. Rows \subseteq ConnIds
  BY Zenon DEF Rows
<1>4. lastConn + 1 \in Nat
  BY DEF OrgInv, OrgTypes
<1> QED BY <1>2, <1>3, <1>4, Zenon DEF PathIds

\* The seven handlers' first step.
LEMMA CallsArrive ==
    ASSUME OrgInv, NEW c \in ConfigCalls, NotesOverlap,
           \/ HandleUpsertOrgConnection(c) \/ HandlePatchOrgConnection(c)
           \/ HandlePutOrgConnectionBranches(c) \/ HandleDeleteOrgConnection(c)
           \/ HandlePutOrgSecret(c) \/ HandleDeleteOrgSecret(c)
           \/ HandlePutOrgLanguageModels(c)
    PROVE  OrgInv'
<1>0. /\ Bodies(c) \subseteq Configs /\ PathIds \subseteq Nat
  BY IdsAreNumbers DEF Bodies, Config, Configs
<1>1. CASE HandleUpsertOrgConnection(c)
  <2>1. PICK n \in ConnNames, b \in Bodies(c) : Accept(c, "POST", Nothing, n, b, "secrets")
    BY <1>1, Zenon DEF HandleUpsertOrgConnection
  <2> QED BY <1>0, <2>1, CallAccepted, Zenon
<1>2. CASE HandlePatchOrgConnection(c)
  <2>1. PICK i \in PathIds, n \in ConnNames \cup {Nothing}, b \in Bodies(c) \cup {Nothing} :
           Accept(c, "PATCH", i, n, b, "base")
    BY <1>2, Zenon DEF HandlePatchOrgConnection
  <2> QED BY <1>0, <2>1, CallAccepted, Zenon
<1>3. CASE HandlePutOrgConnectionBranches(c)
  <2>1. PICK i \in PathIds : Accept(c, "BRANCHES", i, Nothing, Nothing, "base")
    BY <1>3, Zenon DEF HandlePutOrgConnectionBranches
  <2> QED BY <1>0, <2>1, CallAccepted, Zenon
<1>4. CASE HandleDeleteOrgConnection(c)
  <2>1. PICK i \in PathIds : Accept(c, "DELETE", i, Nothing, Nothing, "write")
    BY <1>4, Zenon DEF HandleDeleteOrgConnection
  <2> QED BY <1>0, <2>1, CallAccepted, Zenon
<1>5. CASE HandlePutOrgSecret(c)
  <2>1. PICK k \in SecretKeys : Accept(c, "SECRET", Nothing, k, Nothing, "write")
    BY <1>5, Zenon DEF HandlePutOrgSecret
  <2> QED BY <2>1, CallAccepted, Zenon
<1>6. CASE HandleDeleteOrgSecret(c)
  <2>1. PICK k \in SecretKeys : Accept(c, "UNSECRET", Nothing, k, Nothing, "refcheck")
    BY <1>6, Zenon DEF HandleDeleteOrgSecret
  <2> QED BY <2>1, CallAccepted, Zenon
<1>7. CASE HandlePutOrgLanguageModels(c)
  <2>1. PICK n \in ModelNames, b \in Bodies(c) : Accept(c, "MODELS", Nothing, n, b, "secrets")
    BY <1>7, Zenon DEF HandlePutOrgLanguageModels
  <2> QED BY <1>0, <2>1, CallAccepted, Zenon
<1> QED BY <1>1, <1>2, <1>3, <1>4, <1>5, <1>6, <1>7, Zenon

\* The statements that read and check.
LEMMA CallsCheck ==
    ASSUME OrgInv, NEW c \in ConfigCalls, NotesOverlap,
           \/ LoadBase(c) \/ CheckOrgConnectionNameAvailable(c)
           \/ SelectMissingOrgSecretKeys(c) \/ ClearModels(c) \/ StatementFails(c)
    PROVE  OrgInv'
<1> DEFINE R == orgCall[c]
<1>0. /\ R \in CallRecord /\ CallShape(R)
      /\ ~orgOverlapped => Resolved(conn, models, secrets) /\ Checked(R, conn, models, secrets)
  BY Zenon DEF OrgInv, OrgTypes, OneAtATime
<1>c. \E x \in Nat : x = 404
  OBVIOUS
<1>d. \E x \in Nat : x = 400
  OBVIOUS
<1>e. \E x \in Nat : x = 500
  OBVIOUS
<1>1. CASE LoadBase(c)
  <2> DEFINE row == IF R.id \in ConnIds THEN conn[R.id] ELSE Nothing
  <2>1. R.at = "base" /\ UNCHANGED <<conn, lastConn, secrets, models>>
    BY <1>1, Zenon DEF LoadBase
  <2>2. CASE row = Nothing
    <3>1. Respond(c, 404)
      BY <1>1, <2>2, Zenon DEF LoadBase
    <3> QED BY <1>c, <2>1, <3>1, CallRefused
  <2>3. CASE row # Nothing
    <3>1. PICK b \in ConnRow : b = row /\ (~orgOverlapped => b.config.refs \subseteq secrets)
      <4>1. row \in ConnRow
        BY <2>3, Zenon DEF OrgInv, OrgTypes
      <4>2. ~orgOverlapped => row.config.refs \subseteq secrets
        BY <1>0, <2>3, Zenon DEF Resolved
      <4> QED BY <4>1, <4>2, Zenon
    <3>2. PICK at \in {"name", "write", "secrets"} :
             /\ orgCall' = [orgCall EXCEPT ![c] = [R EXCEPT !.at = at, !.base = b]]
             /\ at = "write" => R.config = Nothing
             /\ at = "secrets" => R.config # Nothing
      <4>1. CASE R.name \notin {Nothing, row.name}
        <5>1. orgCall' = [orgCall EXCEPT ![c].at = "name", ![c].base = row]
          BY <1>1, <2>3, <4>1, Zenon DEF LoadBase
        <5>2. orgCall' = [orgCall EXCEPT ![c] = [R EXCEPT !.at = "name", !.base = b]]
          BY <3>1, <5>1, Zenon DEF OrgInv, OrgTypes
        <5> QED BY <5>2, Zenon
      <4>2. CASE R.name \in {Nothing, row.name}
        <5>1. orgCall' = [orgCall EXCEPT ![c].base = row,
                    ![c].at = IF R.config = Nothing THEN "write" ELSE "secrets"]
          BY <1>1, <2>3, <4>2, Zenon DEF LoadBase
        <5>2. orgCall' = [orgCall EXCEPT ![c] = [R EXCEPT !.base = b,
                    !.at = IF R.config = Nothing THEN "write" ELSE "secrets"]]
          BY <3>1, <5>1, Zenon DEF OrgInv, OrgTypes
        <5>3. CASE R.config = Nothing
          <6>1. orgCall' = [orgCall EXCEPT ![c] = [R EXCEPT !.at = "write", !.base = b]]
            BY <5>2, <5>3, Zenon
          <6> QED BY <5>3, <6>1, Zenon
        <5>4. CASE R.config # Nothing
          <6>1. orgCall' = [orgCall EXCEPT ![c] = [R EXCEPT !.at = "secrets", !.base = b]]
            BY <5>2, <5>4, Zenon
          <6> QED BY <5>4, <6>1, Zenon
        <5> QED BY <5>3, <5>4, Zenon
      <4> QED BY <4>1, <4>2, Zenon
    <3>3. PICK r \in CallRecord : r = [R EXCEPT !.at = at, !.base = b]
      BY <1>0, ZenonT(60) DEF CallRecord
    <3>4. /\ r.at = at /\ r.base = b /\ r.kind = R.kind /\ r.config = R.config
          /\ r.name = R.name
      <4>1. DOMAIN R = {"at", "kind", "id", "name", "config", "base", "seen", "row", "code"}
        BY <1>0, Zenon DEF CallRecord
      <4> QED BY <3>3, <4>1, Zenon
    <3>5. R.kind \in {"PATCH", "BRANCHES"} /\ R.config \in Configs \cup {Nothing}
      BY <1>0, <2>1, Zenon DEF CallShape, CallRecord
    <3>6. CallShape(r)
      BY <1>0, <2>1, <3>2, <3>4, <3>5, Zenon DEF CallShape
    <3>7. ~orgOverlapped => Checked(r, conn, models, secrets)
      BY <3>1, <3>2, <3>4, <3>5, Zenon DEF Checked
    <3> QED BY <2>1, <3>2, <3>3, <3>6, <3>7, CallGoesOn, Zenon
  <2> QED BY <2>2, <2>3, Zenon
<1>2. CASE CheckOrgConnectionNameAvailable(c)
  <2>1. R.at = "name" /\ UNCHANGED <<conn, lastConn, secrets, models>>
    BY <1>2, Zenon DEF CheckOrgConnectionNameAvailable
  <2>2. CASE Respond(c, 400)
    <3>1. PICK code \in Nat : code = 400
      BY <1>d, Zenon
    <3>2. Respond(c, code)
      BY <2>2, <3>1, Zenon
    <3> QED BY <2>1, <3>2, CallRefused, Zenon
  <2>3. CASE ~Respond(c, 400)
    <3>1. PICK at \in {"write", "secrets"} :
             /\ orgCall' = [orgCall EXCEPT ![c].at = at]
             /\ at = "write" => R.config = Nothing
             /\ at = "secrets" => R.config # Nothing
      BY <1>2, <2>3, Zenon DEF CheckOrgConnectionNameAvailable, MoveTo
    <3>2. PICK r \in CallRecord : r = [R EXCEPT !.at = at]
      BY <1>0, ZenonT(60) DEF CallRecord
    <3>3. /\ r.at = at /\ r.base = R.base /\ r.kind = R.kind /\ r.config = R.config
          /\ r.name = R.name
      BY <1>0, <3>2, Zenon DEF CallRecord
    <3>4. orgCall' = [orgCall EXCEPT ![c] = r]
      BY <3>1, <3>2, Zenon DEF OrgInv, OrgTypes
    <3>5. R.kind \in {"PATCH", "BRANCHES"} /\ R.config \in Configs \cup {Nothing}
      BY <1>0, <2>1, Zenon DEF CallShape, CallRecord
    <3>6. CallShape(r)
      BY <1>0, <2>1, <3>1, <3>3, <3>5, Zenon DEF CallShape
    <3>7. ~orgOverlapped => Checked(r, conn, models, secrets)
      BY <1>0, <2>1, <3>1, <3>3, <3>5, Zenon DEF Checked
    <3> QED BY <2>1, <3>4, <3>6, <3>7, CallGoesOn, Zenon
  <2> QED BY <2>2, <2>3, Zenon
<1>3. CASE SelectMissingOrgSecretKeys(c)
  <2>1. R.at = "secrets" /\ UNCHANGED <<conn, lastConn, secrets, models>>
    BY <1>3, Zenon DEF SelectMissingOrgSecretKeys
  <2>2. CASE ~(R.config.refs \subseteq secrets)
    <3>1. Respond(c, 400)
      BY <1>3, <2>2, Zenon DEF SelectMissingOrgSecretKeys, CollectUnique
    <3> QED BY <1>d, <2>1, <3>1, CallRefused
  <2>3. CASE R.config.refs \subseteq secrets
    <3>1. PICK at \in {"write", "clear"} :
             /\ orgCall' = [orgCall EXCEPT ![c].at = at]
             /\ at = "clear" <=> R.kind = "MODELS"
      BY <1>3, <2>3, Zenon DEF SelectMissingOrgSecretKeys, CollectUnique, MoveTo
    <3>2. PICK r \in CallRecord : r = [R EXCEPT !.at = at]
      BY <1>0, Zenon DEF CallRecord
    <3>3. /\ r.at = at /\ r.base = R.base /\ r.kind = R.kind /\ r.config = R.config
          /\ r.name = R.name
      BY <1>0, <3>2, Zenon DEF CallRecord
    <3>4. orgCall' = [orgCall EXCEPT ![c] = r]
      BY <3>1, <3>2, Zenon DEF OrgInv, OrgTypes
    <3>6. CallShape(r)
      BY <1>0, <2>1, <3>1, <3>3, Zenon DEF CallShape
    <3>7. ~orgOverlapped => Checked(r, conn, models, secrets)
      <4>1. R.kind # "UNSECRET"
        BY <1>0, <2>1, Zenon DEF CallShape
      <4> QED BY <1>0, <2>1, <2>3, <3>1, <3>3, <4>1, Zenon DEF Checked
    <3> QED BY <2>1, <3>4, <3>6, <3>7, CallGoesOn, Zenon
  <2> QED BY <2>2, <2>3, Zenon
<1>4. CASE ClearModels(c)
  <2>1. R.at = "clear" /\ UNCHANGED <<conn, lastConn, secrets, models>>
    BY <1>4, Zenon DEF ClearModels
  <2>2. orgCall' = [orgCall EXCEPT ![c] = [R EXCEPT !.at = "insert", !.seen = models]]
    BY <1>4, Zenon DEF ClearModels, OrgInv, OrgTypes
  <2>3. models \subseteq ModelRow
    BY Zenon DEF OrgInv, OrgTypes
  <2>4. PICK r \in CallRecord : r = [R EXCEPT !.at = "insert", !.seen = models]
    BY <1>0, <2>3, Zenon DEF CallRecord
  <2>5. /\ r.at = "insert" /\ r.base = R.base /\ r.kind = R.kind /\ r.config = R.config
        /\ r.name = R.name
    <3>1. DOMAIN R = {"at", "kind", "id", "name", "config", "base", "seen", "row", "code"}
      BY <1>0, Zenon DEF CallRecord
    <3> QED BY <2>4, <3>1, Zenon
  <2>6. CallShape(r)
    BY <1>0, <2>1, <2>5, Zenon DEF CallShape
  <2>7. ~orgOverlapped => Checked(r, conn, models, secrets)
    BY <1>0, <2>1, <2>5, Zenon DEF Checked
  <2> QED BY <2>1, <2>2, <2>4, <2>6, <2>7, CallGoesOn, Zenon
<1>5. CASE StatementFails(c)
  <2>1. Respond(c, 500) /\ UNCHANGED <<conn, lastConn, secrets, models>>
    BY <1>5, Zenon DEF StatementFails
  <2> QED BY <1>e, <2>1, CallRefused
<1> QED BY <1>1, <1>2, <1>3, <1>4, <1>5, Zenon

\* The row a connection write hands over has its type, and its keys have secrets.
LEMMA MergedRowChecked ==
    ASSUME OrgInv, NEW c \in ConfigCalls, orgCall[c].at = "write",
           orgCall[c].kind \in {"POST", "PATCH", "BRANCHES"}
    PROVE  /\ MergedRow(c) \in ConnRow
           /\ ~orgOverlapped => MergedRow(c).config.refs \subseteq secrets
<1> DEFINE R == orgCall[c]
<1>0. /\ R \in CallRecord /\ CallShape(R)
      /\ ~orgOverlapped => Checked(R, conn, models, secrets)
  BY Zenon DEF OrgInv, OrgTypes, OneAtATime
<1>1. CASE R.kind = "POST"
  <2>1. R.name \in ConnNames /\ R.config \in Configs
    BY <1>0, <1>1, Zenon DEF CallShape
  <2>2. MergedRow(c) = [name |-> R.name, config |-> R.config]
    BY <1>1, Zenon DEF MergedRow
  <2>3. ~orgOverlapped => R.config.refs \subseteq secrets
    BY <1>0, <1>1, Zenon DEF Checked
  <2> QED BY <2>1, <2>2, <2>3 DEF ConnRow
<1>2. CASE R.kind = "PATCH"
  <2>1. /\ R.name \in ConnNames \cup {Nothing} /\ R.base \in ConnRow
        /\ R.config \in Configs \cup {Nothing}
    BY <1>0, <1>2, Zenon DEF CallShape, CallRecord
  <2>2. R.base.name \in ConnNames /\ R.base.config \in Configs
    BY <2>1, Zenon DEF ConnRow
  <2>3. MergedRow(c) = [name |-> IF R.name = Nothing THEN R.base.name ELSE R.name,
                        config |-> IF R.config = Nothing THEN R.base.config ELSE R.config]
    BY <1>2, Zenon DEF MergedRow, PatchedRow
  <2>4. ~orgOverlapped => /\ R.base.config.refs \subseteq secrets
                          /\ R.config # Nothing => R.config.refs \subseteq secrets
    BY <1>0, <1>2, Zenon DEF Checked
  <2> QED BY <2>1, <2>2, <2>3, <2>4 DEF ConnRow
<1>3. CASE R.kind = "BRANCHES"
  <2>1. R.base \in ConnRow /\ R.base.config \in Configs
    BY <1>0, <1>3, Zenon DEF CallShape, ConnRow
  <2>2. PICK f \in Configs : f = [R.base.config EXCEPT !.branches = c]
    BY <2>1, Zenon DEF Configs
  <2>3. f.refs = R.base.config.refs
    BY <2>1, <2>2, Zenon DEF Configs
  <2>4. MergedRow(c) = [R.base EXCEPT !.config = f]
    BY <1>3, <2>2, Zenon DEF MergedRow, ApplyBranchPolicy
  <2>5. MergedRow(c) \in ConnRow /\ MergedRow(c).config = f
    BY <2>1, <2>4, Zenon DEF ConnRow
  <2>6. ~orgOverlapped => R.base.config.refs \subseteq secrets
    BY <1>0, <1>3, Zenon DEF Checked
  <2> QED BY <2>3, <2>5, <2>6, Zenon
<1> QED BY <1>1, <1>2, <1>3, Zenon

\* A row whose keys are stored may be written anywhere.
LEMMA RowResolves ==
    ASSUME NEW m, m.config.refs \subseteq secrets, Resolved(conn, models, secrets),
           UNCHANGED <<secrets, models>>,
           \A i \in ConnIds : conn'[i] = conn[i] \/ conn'[i] = m
    PROVE  Resolved(conn', models', secrets')
<1>1. ASSUME NEW i \in ConnIds, conn'[i] # Nothing PROVE conn'[i].config.refs \subseteq secrets
  <2>1. CASE conn'[i] = m
    BY <2>1, Zenon
  <2>2. CASE conn'[i] = conn[i]
    BY <1>1, <2>2, Zenon DEF Resolved
  <2> QED BY <2>1, <2>2, Zenon
<1> QED BY <1>1, Zenon DEF Resolved

\* The statements that write.
LEMMA CallsWrite ==
    ASSUME OrgInv, NEW c \in ConfigCalls, NotesOverlap,
           \/ UpsertOrgConnection(c) \/ DeleteOrgConnection(c) \/ UpsertOrgSecret(c)
           \/ DeleteOrgSecret(c) \/ CommitModels(c)
    PROVE  OrgInv'
<1> DEFINE R == orgCall[c]
<1>0. /\ R \in CallRecord /\ CallShape(R)
      /\ ~orgOverlapped => Resolved(conn, models, secrets) /\ Checked(R, conn, models, secrets)
  BY Zenon DEF OrgInv, OrgTypes, OneAtATime
<1>t. /\ conn \in [ConnIds -> ConnRow \cup {Nothing}] /\ lastConn \in Nat
      /\ secrets \subseteq SecretKeys /\ models \subseteq ModelRow
  BY Zenon DEF OrgInv, OrgTypes
<1>c. /\ \E x \in Nat : x = 404
      /\ \E x \in Nat : x = 200
      /\ \E x \in Nat : x = 500
  OBVIOUS
<1>1. CASE UpsertOrgConnection(c)
  <2>1. PICK code \in {200, 429, 502} :
           /\ conn' = [conn EXCEPT ![UpsertTarget(c)] = MergedRow(c)]
           /\ lastConn' = IF UpsertTarget(c) > lastConn THEN UpsertTarget(c) ELSE lastConn
           /\ RespondRow(c, code, UpsertTarget(c))
    BY <1>1, Zenon DEF UpsertOrgConnection
  <2>2. /\ R.at = "write" /\ R.kind \in {"POST", "PATCH", "BRANCHES"}
        /\ UNCHANGED <<secrets, models>>
    BY <1>1 DEF UpsertOrgConnection
  <2>3. PICK m \in ConnRow : /\ m = MergedRow(c)
                             /\ ~orgOverlapped => m.config.refs \subseteq secrets
    BY <2>2, MergedRowChecked
  <2>4. UpsertTarget(c) \in Nat
    <3>1. CASE NamedRows(MergedRow(c).name) = {}
      BY <1>t, <3>1 DEF UpsertTarget
    <3>2. CASE NamedRows(MergedRow(c).name) # {}
      <4>1. UpsertTarget(c) \in NamedRows(MergedRow(c).name)
        BY <3>2 DEF UpsertTarget
      <4> QED BY <4>1, IdsAreNumbers DEF NamedRows
    <3> QED BY <3>1, <3>2
  <2>5. PICK id \in Nat : id = UpsertTarget(c)
    BY <2>4, Zenon
  <2>6. lastConn' \in Nat
    BY <1>t, <2>1, <2>5, ZenonT(60)
  <2>7. conn' = [conn EXCEPT ![id] = m]
    BY <2>1, <2>3, <2>5, Zenon
  <2>8. /\ conn' \in [ConnIds -> ConnRow \cup {Nothing}]
        /\ \A i \in ConnIds : conn'[i] = conn[i] \/ conn'[i] = m
    <3>1. m \in ConnRow \cup {Nothing}
      OBVIOUS
    <3>2. conn' \in [ConnIds -> ConnRow \cup {Nothing}]
      BY <1>t, <2>7, <3>1, ZenonT(60)
    <3>3. ASSUME NEW i \in ConnIds PROVE conn'[i] = conn[i] \/ conn'[i] = m
      BY <1>t, <2>7
    <3> QED BY <3>2, <3>3
  <2>9. ~orgOverlapped => Resolved(conn', models', secrets')
    <3>1. SUFFICES ASSUME ~orgOverlapped PROVE Resolved(conn', models', secrets')
      OBVIOUS
    <3>2. m.config.refs \subseteq secrets /\ Resolved(conn, models, secrets)
      BY <1>0, <2>3, <3>1, ZenonT(60)
    <3>3. UNCHANGED <<secrets, models>>
      BY <2>2, Zenon
    <3>4. \A i \in ConnIds : conn'[i] = conn[i] \/ conn'[i] = m
      BY <2>8, Zenon
    <3> QED BY <3>2, <3>3, <3>4, RowResolves, ZenonT(60)
  <2>10. code \in Nat
    OBVIOUS
  <2>k. R.kind \in {"", "POST", "PATCH", "BRANCHES", "DELETE", "SECRET", "UNSECRET", "MODELS"}
    BY <2>2, ZenonT(60)
  <2>i. R.id \in Nat \cup {Nothing}
    BY <1>0, Zenon DEF CallRecord
  <2>11. PICK r \in CallRecord : r = [NewCall EXCEPT !.at = "replied", !.code = code,
                                        !.row = id, !.kind = R.kind, !.id = R.id]
    BY <2>10, <2>k, <2>i, ZenonT(60) DEF NewCall, CallRecord
  <2>12. r.at = "replied"
    BY <2>11, Zenon DEF NewCall
  <2>13. orgCall' = [orgCall EXCEPT ![c] = r]
    BY <2>1, <2>5, <2>11 DEF RespondRow
  <2>14. CallShape(r) /\ Checked(r, conn', models', secrets')
    BY <2>12 DEF CallShape, Checked
  <2>15. secrets' \subseteq SecretKeys /\ models' \subseteq ModelRow
    BY <1>t, <2>2, ZenonT(60)
  <2>16. c \in Open(orgCall)
    BY <2>2 DEF Open
  <2> QED BY <2>6, <2>8, <2>9, <2>13, <2>14, <2>15, <2>16, CallMoves, Zenon DEF NotesOverlap
<1>2. CASE DeleteOrgConnection(c)
  <2>1. /\ R.at = "write" /\ UNCHANGED <<lastConn, secrets, models>>
        /\ conn' = [conn EXCEPT ![R.id] = Nothing]
        /\ Respond(c, 200) \/ Respond(c, 404)
    BY <1>2, Zenon DEF DeleteOrgConnection
  <2>2. /\ conn' \in [ConnIds -> ConnRow \cup {Nothing}]
        /\ \A i \in ConnIds : conn'[i] = conn[i] \/ conn'[i] = Nothing
    BY <1>t, <2>1, Zenon
  <2>3. ~orgOverlapped => Resolved(conn', models', secrets')
    BY <1>0, <2>1, <2>2, Zenon DEF Resolved
  <2>4. PICK code \in Nat : Respond(c, code)
    <3>1. PICK x \in Nat : x = 200
      BY <1>c, Zenon
    <3>2. PICK y \in Nat : y = 404
      BY <1>c, Zenon
    <3>3. Respond(c, x) \/ Respond(c, y)
      BY <2>1, <3>1, <3>2, Zenon
    <3> QED BY <3>3, Zenon
  <2>5. lastConn' \in Nat /\ secrets' \subseteq SecretKeys /\ models' \subseteq ModelRow
    BY <1>t, <2>1, Zenon
  <2>6. c \in Open(orgCall)
    BY <2>1, Zenon DEF Open
  <2> QED BY <2>2, <2>3, <2>4, <2>5, <2>6, CallAnswered, Zenon
<1>3. CASE UpsertOrgSecret(c)
  <2>1. /\ R.at = "write" /\ R.kind = "SECRET" /\ UNCHANGED <<conn, lastConn, models>>
        /\ secrets' = secrets \cup {R.name}
        /\ Respond(c, 200)
    BY <1>3, Zenon DEF UpsertOrgSecret
  <2>2. R.name \in SecretKeys
    BY <1>0, <2>1, Zenon DEF CallShape
  <2>3. ~orgOverlapped => Resolved(conn', models', secrets')
    BY <1>0, <2>1, Zenon DEF Resolved
  <2>4. PICK code \in Nat : Respond(c, code)
    <3>1. PICK x \in Nat : x = 200
      BY <1>c, Zenon
    <3>2. Respond(c, x)
      BY <2>1, <3>1, Zenon
    <3> QED BY <3>2, Zenon
  <2>5. /\ conn' \in [ConnIds -> ConnRow \cup {Nothing}] /\ lastConn' \in Nat
        /\ secrets' \subseteq SecretKeys /\ models' \subseteq ModelRow
    BY <1>t, <2>1, <2>2, Zenon
  <2>6. c \in Open(orgCall)
    BY <2>1, Zenon DEF Open
  <2> QED BY <2>3, <2>4, <2>5, <2>6, CallAnswered, Zenon
<1>4. CASE DeleteOrgSecret(c)
  <2>1. /\ R.at = "write" /\ R.kind = "UNSECRET" /\ UNCHANGED <<conn, lastConn, models>>
        /\ secrets' = secrets \ {R.name}
        /\ Respond(c, 200)
    BY <1>4, Zenon DEF DeleteOrgSecret
  <2>2. ~orgOverlapped => /\ \A i \in ConnIds : conn[i] # Nothing => R.name \notin conn[i].config.refs
                          /\ \A m \in models : R.name \notin m.config.refs
    BY <1>0, <2>1, Zenon DEF Checked
  <2>3. ~orgOverlapped => Resolved(conn', models', secrets')
    BY <1>0, <2>1, <2>2, ZenonT(60) DEF Resolved
  <2>4. PICK code \in Nat : Respond(c, code)
    BY <1>c, <2>1
  <2>5. /\ conn' \in [ConnIds -> ConnRow \cup {Nothing}] /\ lastConn' \in Nat
        /\ secrets' \subseteq SecretKeys /\ models' \subseteq ModelRow
    BY <1>t, <2>1, Zenon
  <2>6. c \in Open(orgCall)
    BY <2>1, Zenon DEF Open
  <2> QED BY <2>3, <2>4, <2>5, <2>6, CallAnswered, Zenon
<1>5. CASE CommitModels(c)
  <2>1. R.at = "insert" /\ UNCHANGED <<conn, lastConn, secrets>>
    BY <1>5, Zenon DEF CommitModels
  <2>2. CASE Respond(c, 500) /\ UNCHANGED models
    BY <1>c, <2>1, <2>2, CallRefused
  <2>3. CASE models' = ModelsAfter(c) /\ Respond(c, 200)
    <3>1. /\ R.config \in Configs /\ R.name \in ModelNames
      BY <1>0, <2>1, Zenon DEF CallShape
    <3>2. PICK m \in ModelRow : m = [name |-> R.name, config |-> R.config]
      BY <3>1, Zenon DEF ModelRow
    <3>3. m.config = R.config
      BY <3>2, Zenon
    <3>4. models' \subseteq models \cup {m}
      BY <2>3, <3>2, Zenon DEF ModelsAfter
    <3>5. ~orgOverlapped => R.config.refs \subseteq secrets
      BY <1>0, <2>1, Zenon DEF Checked
    <3>6. ~orgOverlapped => Resolved(conn', models', secrets')
      BY <1>0, <2>1, <3>3, <3>4, <3>5, Zenon DEF Resolved
    <3>7. PICK code \in Nat : Respond(c, code)
      BY <1>c, <2>3
    <3>8. /\ conn' \in [ConnIds -> ConnRow \cup {Nothing}] /\ lastConn' \in Nat
          /\ secrets' \subseteq SecretKeys /\ models' \subseteq ModelRow
      BY <1>t, <2>1, <3>4, Zenon
    <3>9. c \in Open(orgCall)
      BY <2>1, Zenon DEF Open
    <3> QED BY <3>6, <3>7, <3>8, <3>9, CallAnswered, Zenon
  <2> QED BY <1>5, <2>2, <2>3, ZenonT(60) DEF CommitModels
<1> QED BY <1>1, <1>2, <1>3, <1>4, <1>5, Zenon

\* A refcheck query finds a use and refuses, or finds none.
LEMMA CallRefchecks ==
    ASSUME OrgInv, NEW c \in ConfigCalls, NotesOverlap,
           NEW table \in {"connections", "models"}, NEW configs, Refcheck(c, table, configs),
           table = "connections" => configs = {conn[i].config : i \in Rows},
           table = "models" => configs = {m.config : m \in models}
    PROVE  OrgInv'
<1> DEFINE R == orgCall[c]
<1>0. /\ R \in CallRecord /\ CallShape(R) /\ orgCall \in [ConfigCalls -> CallRecord]
      /\ ~orgOverlapped => Checked(R, conn, models, secrets)
  BY Zenon DEF OrgInv, OrgTypes, OneAtATime
<1>1. R.at = "refcheck" /\ UNCHANGED <<conn, lastConn, secrets, models>>
  BY Zenon DEF Refcheck
<1>2. CASE \E f \in configs : R.name \in f.refs
  <2>1. Respond(c, 400)
    BY <1>2, Zenon DEF Refcheck, CollectUnique
  <2>2. \E x \in Nat : x = 400
    OBVIOUS
  <2> QED BY <1>1, <2>1, <2>2, CallRefused
<1>3. CASE \A f \in configs : R.name \notin f.refs
  <2> DEFINE Seen == R.seen \cup {table}
             At == IF Seen = {"connections", "models"} THEN "write" ELSE "refcheck"
  <2>1. orgCall' = [orgCall EXCEPT ![c].seen = Seen, ![c].at = At]
    BY <1>3, Zenon DEF Refcheck, CollectUnique
  <2>2. orgCall' = [orgCall EXCEPT ![c] = [R EXCEPT !.seen = Seen, !.at = At]]
    BY <1>0, <2>1, Zenon
  <2>3. Seen \in SUBSET ({"connections", "models"} \cup ModelRow)
    BY <1>0, Zenon DEF CallRecord
  <2>4. PICK s \in SUBSET ({"connections", "models"} \cup ModelRow), at \in {"write", "refcheck"} :
           /\ s = Seen /\ at = At
    BY <2>3, Zenon
  <2>5. PICK r \in CallRecord : r = [R EXCEPT !.seen = s, !.at = at]
    BY <1>0, ZenonT(60) DEF CallRecord
  <2>6. /\ r.at = at /\ r.seen = s /\ r.kind = R.kind /\ r.config = R.config
        /\ r.name = R.name
    <3>1. DOMAIN R = {"at", "kind", "id", "name", "config", "base", "seen", "row", "code"}
      BY <1>0, Zenon DEF CallRecord
    <3> QED BY <2>5, <3>1, Zenon
  <2>7. orgCall' = [orgCall EXCEPT ![c] = r]
    BY <2>2, <2>4, <2>5, Zenon
  <2>8. R.kind = "UNSECRET" /\ R.name \in SecretKeys
    BY <1>0, <1>1, Zenon DEF CallShape
  <2>9. CallShape(r)
    BY <2>6, <2>8, Zenon DEF CallShape
  <2>10. ASSUME ~orgOverlapped PROVE Checked(r, conn, models, secrets)
    <3>1. /\ "connections" \in R.seen =>
                \A i \in ConnIds : conn[i] # Nothing => R.name \notin conn[i].config.refs
          /\ "models" \in R.seen => \A m \in models : R.name \notin m.config.refs
      BY <1>0, <1>1, <2>8, <2>10, Zenon DEF Checked
    <3>2. table = "connections" =>
             \A i \in ConnIds : conn[i] # Nothing => R.name \notin conn[i].config.refs
      BY <1>3, Zenon DEF Rows
    <3>3. table = "models" => \A m \in models : R.name \notin m.config.refs
      BY <1>3, Zenon
    <3>4. /\ "connections" \in s =>
                \A i \in ConnIds : conn[i] # Nothing => R.name \notin conn[i].config.refs
          /\ "models" \in s => \A m \in models : R.name \notin m.config.refs
          /\ at = "write" => s = {"connections", "models"}
      BY <2>4, <3>1, <3>2, <3>3, Zenon
    <3> QED BY <2>6, <2>8, <3>4, Zenon DEF Checked
  <2> QED BY <1>1, <2>7, <2>9, <2>10, CallGoesOn, Zenon
<1> QED BY <1>2, <1>3, Zenon

\* Every step keeps the invariant.
LEMMA StepOrg == ASSUME OrgInv, [OrgNext]_orgVars PROVE OrgInv'
<1>1. CASE OrgNext
  <2>1. PICK c \in ConfigCalls :
          \/ HandleUpsertOrgConnection(c) \/ HandlePatchOrgConnection(c)
          \/ HandlePutOrgConnectionBranches(c) \/ HandleDeleteOrgConnection(c)
          \/ HandlePutOrgSecret(c) \/ HandleDeleteOrgSecret(c)
          \/ HandlePutOrgLanguageModels(c)
          \/ LoadBase(c) \/ CheckOrgConnectionNameAvailable(c)
          \/ SelectMissingOrgSecretKeys(c) \/ UpsertOrgConnection(c)
          \/ DeleteOrgConnection(c) \/ UpsertOrgSecret(c)
          \/ RefcheckConnections(c) \/ RefcheckModels(c) \/ DeleteOrgSecret(c)
          \/ ClearModels(c) \/ CommitModels(c) \/ StatementFails(c)
    BY <1>1, Zenon DEF OrgNext
  <2>2. NotesOverlap
    BY <1>1, Zenon DEF OrgNext, NotesOverlap
  <2>3. CASE RefcheckConnections(c)
    BY <2>2, <2>3, CallRefchecks, Zenon DEF RefcheckConnections
  <2>4. CASE RefcheckModels(c)
    BY <2>2, <2>4, CallRefchecks, Zenon DEF RefcheckModels
  <2> QED BY <2>1, <2>2, <2>3, <2>4, CallsArrive, CallsCheck, CallsWrite, Zenon
<1>2. CASE UNCHANGED orgVars
  <2>1. UNCHANGED <<conn, lastConn, secrets, models, orgCall, orgOverlapped>>
    BY <1>2, Zenon DEF orgVars
  <2>2. OrgTypes'
    BY <2>1, Zenon DEF OrgInv, OrgTypes
  <2>3. OneAtATime'
    BY <2>1, Zenon DEF OrgInv, OneAtATime
  <2> QED BY <2>2, <2>3, Zenon DEF OrgInv
<1> QED BY <1>1, <1>2, Zenon

\* The shape of the calls, and for calls that did not overlap that one is open at
\* most and that what it checked before its write still holds.
THEOREM OrgInvHolds == OrgSpec => []OrgInv
<1>1. OrgInit => OrgInv
  <2> SUFFICES ASSUME OrgInit PROVE OrgInv
    OBVIOUS
  <2>1. NewCall \in CallRecord /\ NewCall.at = "new"
    BY Zenon DEF NewCall, CallRecord
  <2>2. \A c \in ConfigCalls : orgCall[c] = NewCall
    BY Zenon DEF OrgInit
  <2>3. CallShape(NewCall) /\ Checked(NewCall, conn, models, secrets)
    BY <2>1, Zenon DEF CallShape, Checked
  <2>4. Config(Nothing, {}, Nothing) \in Configs /\ Config(Nothing, {}, Nothing).refs = {}
    BY Zenon DEF Config, Configs
  <2>5. PICK row \in ConnRow : row = [name |-> FirstName, config |-> Config(Nothing, {}, Nothing)]
    BY <2>4, OrgConstants, Zenon DEF ConnRow
  <2>6. row.config.refs = {}
    BY <2>4, <2>5, Zenon
  <2>7. conn = [i \in ConnIds |-> IF i = 1 THEN row ELSE Nothing]
    BY <2>5, Zenon DEF OrgInit
  <2>8. OrgTypes
    BY <2>1, <2>2, <2>3, <2>7, ZenonT(60) DEF OrgInit, OrgTypes
  <2>9. Resolved(conn, models, secrets)
    BY <2>6, <2>7, Zenon DEF OrgInit, Resolved
  <2>10. \A c, d \in Open(orgCall) : c = d
    BY <2>1, <2>2, Zenon DEF Open
  <2> QED BY <2>2, <2>3, <2>8, <2>9, <2>10, Zenon DEF OrgInv, OneAtATime
<1> QED BY <1>1, StepOrg, PTL DEF OrgSpec

\* As long as no two calls were between their first read and their write, every key
\* that a connection or a model refers to has a secret, for any numbers of calls,
\* names and keys.
THEOREM SecretReferencesResolve == OrgSpec => []SecretRefsResolve
<1>1. OrgInv => SecretRefsResolve
  BY Zenon DEF OrgInv, OneAtATime, Resolved, SecretRefsResolve, References, Rows
<1> QED BY <1>1, OrgInvHolds, PTL
=============================================================================
