---------------------------- MODULE LibraryProofs ----------------------------
(***************************************************************************)
(* Theorems about Library for any number of creators, images and calls that*)
(* overlap, and about MediaPipeline for any number of files, uploads, calls*)
(* and jobs, with failures of the storage and crashes.                     *)
(***************************************************************************)
EXTENDS Library, MediaPipeline, TLAPS

Registrations == [sharing: Sharings, live: BOOLEAN]
Rows          == Registrations \cup {None}

UploadSteps == {"find", "update", "head", "inventory", "store", "register", "winner",
                "adopt", "drop", "set"}

UploadCalls ==
    [step: UploadSteps, owner: Artists, image: Images, sharing: Sharings \cup {None},
     form: {"profile", "library"}, old: Images \cup {"legacy", None}, found: Rows,
     present: BOOLEAN]

GrantCalls == [step: {"grant", "revoke"}, owner: Artists, image: Images, grantee: Artists]

Shapes ==
    /\ assets \in [Artists \X Images -> Rows]
    /\ avatar \in [Artists -> Images \cup {"legacy", None}]
    /\ libraryCall \in [LibraryCalls -> UploadCalls \cup GrantCalls \cup {IdleWish}]

\* The steps by which the image of a call is stored and listed.
Placed == {"register", "winner", "adopt", "update", "set", "drop"}

\* What an upload in flight may rely on: its image is stored and listed by the time it
\* registers, what it found stored or listed itself stays so, and so do rows it found.
CallOK(r, rows, stored, listed) ==
    r.step \in UploadSteps =>
        /\ r.step \in Placed => r.image \in stored \cap listed
        /\ r.step = "inventory" /\ r.present => r.image \in stored
        /\ r.step = "store" => r.image \in listed
        /\ r.step \in {"update", "winner", "adopt"} \/ r.found # None
             => rows[<<r.owner, r.image>>] \in Registrations

\* Every registration there ever was, tombstoned or not, has its image stored.
ServedInv ==
    /\ Shapes
    /\ objects \subseteq blobs
    /\ \A o \in Artists, i \in Images : assets[<<o, i>>] # None => i \in objects
    /\ \A a \in Artists : avatar[a] \in Images => avatar[a] \in objects
    /\ \A c \in LibraryCalls : CallOK(libraryCall[c], assets, objects, blobs)

\* A call at a step of an upload is an upload.
LEMMA AtUpload ==
    ASSUME Shapes, NEW c \in LibraryCalls, libraryCall[c].step \in UploadSteps
    PROVE  libraryCall[c] \in UploadCalls
  <1>1. IdleWish.step \notin UploadSteps  BY DEF IdleWish, UploadSteps
  <1>2. \A r \in GrantCalls : r.step \notin UploadSteps  BY DEF GrantCalls, UploadSteps
  <1>. QED  BY <1>1, <1>2 DEF Shapes

\* What a step of an upload makes of the record of the call.
LEMMA Onward ==
    ASSUME NEW r \in UploadCalls, NEW s \in UploadSteps
    PROVE  /\ [r EXCEPT !.step = s] \in UploadCalls
           /\ [r EXCEPT !.step = s].step = s
           /\ [r EXCEPT !.step = s].owner = r.owner
           /\ [r EXCEPT !.step = s].image = r.image
           /\ [r EXCEPT !.step = s].found = r.found
           /\ [r EXCEPT !.step = s].present = r.present
  BY DEF UploadCalls

\* Idle calls and grants rely on nothing.
LEMMA NothingToRely ==
    ASSUME NEW rows, NEW stored, NEW listed
    PROVE  /\ CallOK(IdleWish, rows, stored, listed)
           /\ \A r \in GrantCalls : CallOK(r, rows, stored, listed)
  BY DEF CallOK, IdleWish, GrantCalls, UploadSteps

\* Stored objects, listed images and registrations only grow in number: it is enough
\* to look at the call that moves and at the rows it writes.
LEMMA Kept ==
    ASSUME ServedInv, NEW c \in LibraryCalls, NEW r,
           r \in UploadCalls \cup GrantCalls \cup {IdleWish},
           libraryCall' = [libraryCall EXCEPT ![c] = r],
           CallOK(r, assets', objects', blobs'),
           objects \subseteq objects', blobs \subseteq blobs', objects' \subseteq blobs',
           assets' \in [Artists \X Images -> Rows],
           avatar' \in [Artists -> Images \cup {"legacy", None}],
           \A o \in Artists, i \in Images :
               assets[<<o, i>>] \in Registrations => assets'[<<o, i>>] \in Registrations,
           \A o \in Artists, i \in Images : assets'[<<o, i>>] # None => i \in objects',
           \A a \in Artists : avatar'[a] \in Images => avatar'[a] \in objects'
    PROVE  ServedInv'
  <1>1. Shapes'  BY DEF ServedInv, Shapes
  <1>2. ASSUME NEW d \in LibraryCalls
        PROVE  CallOK(libraryCall'[d], assets', objects', blobs')
    <2>1. CASE d = c  BY <2>1 DEF ServedInv, Shapes
    <2>2. CASE d # c
      <3>1. libraryCall'[d] = libraryCall[d]  BY <2>2 DEF ServedInv, Shapes
      <3>2. CallOK(libraryCall[d], assets, objects, blobs)  BY DEF ServedInv
      <3>3. SUFFICES ASSUME libraryCall[d].step \in UploadSteps
                     PROVE  CallOK(libraryCall[d], assets', objects', blobs')
        BY <3>1 DEF CallOK
      <3>4. libraryCall[d] \in UploadCalls  BY <3>3, AtUpload DEF ServedInv
      <3>5. libraryCall[d].owner \in Artists /\ libraryCall[d].image \in Images
        BY <3>4 DEF UploadCalls
      <3>. QED  BY <3>2, <3>3, <3>5 DEF CallOK
    <2>. QED  BY <2>1, <2>2
  <1>. QED  BY <1>1, <1>2 DEF ServedInv

\* A step that writes no table.
LEMMA KeptReading ==
    ASSUME ServedInv, NEW c \in LibraryCalls, NEW r,
           r \in UploadCalls \cup GrantCalls \cup {IdleWish},
           Move(c, r), CallOK(r, assets, objects, blobs), UNCHANGED Tables
    PROVE  ServedInv'
  <1>1. assets' = assets /\ objects' = objects /\ blobs' = blobs /\ avatar' = avatar
    BY DEF Tables
  <1>2. libraryCall' = [libraryCall EXCEPT ![c] = r]  BY DEF Move
  <1>3. /\ objects \subseteq blobs
        /\ assets \in [Artists \X Images -> Rows]
        /\ avatar \in [Artists -> Images \cup {"legacy", None}]
        /\ \A o \in Artists, i \in Images : assets[<<o, i>>] # None => i \in objects
        /\ \A a \in Artists : avatar[a] \in Images => avatar[a] \in objects
    BY DEF ServedInv, Shapes
  <1>4. CallOK(r, assets', objects', blobs')  BY <1>1
  <1>. QED  BY <1>1, <1>2, <1>3, <1>4, Kept

\* What follows a registration, or a step at the avatar: the call ends, or goes on there.
LEMMA RegisteredOn ==
    ASSUME ServedInv, NEW c \in LibraryCalls, libraryCall[c] \in UploadCalls,
           Registered(c) \/ After(c, "set") \/ After(c, "drop"), NEW rows, NEW stored, NEW listed,
           libraryCall[c].image \in stored \cap listed,
           libraryCall[c].found # None =>
               rows[<<libraryCall[c].owner, libraryCall[c].image>>] \in Registrations
    PROVE  \E r \in UploadCalls \cup GrantCalls \cup {IdleWish} :
               Move(c, r) /\ CallOK(r, rows, stored, listed)
  <1>. DEFINE q(s) == [libraryCall[c] EXCEPT !.step = s]
  <1>1. ASSUME NEW s \in {"drop", "set"}, Move(c, q(s))
        PROVE  \E r \in UploadCalls \cup GrantCalls \cup {IdleWish} :
                   Move(c, r) /\ CallOK(r, rows, stored, listed)
    <2>1. s \in UploadSteps  BY DEF UploadSteps
    <2>2. /\ q(s) \in UploadCalls /\ q(s).step = s
          /\ q(s).owner = libraryCall[c].owner /\ q(s).image = libraryCall[c].image
          /\ q(s).found = libraryCall[c].found
      BY <2>1, Onward
    <2>3. CallOK(q(s), rows, stored, listed)  BY <2>2 DEF CallOK
    <2>. QED  BY <1>1, <2>2, <2>3
  <1>2. CASE Move(c, IdleWish)  BY <1>2, NothingToRely
  <1>3. Move(c, IdleWish) \/ Move(c, q("drop")) \/ Move(c, q("set"))
    BY DEF Registered, After, Over, To
  <1>. HIDE DEF q
  <1>. QED  BY <1>1, <1>2, <1>3

\* What the invariant says of an upload in flight.
LEMMA Relied ==
    ASSUME ServedInv, NEW c \in LibraryCalls, libraryCall[c].step \in UploadSteps
    PROVE  /\ libraryCall[c] \in UploadCalls
           /\ libraryCall[c].owner \in Artists
           /\ libraryCall[c].image \in Images
           /\ libraryCall[c].found \in Rows
           /\ libraryCall[c].step \in Placed => libraryCall[c].image \in objects \cap blobs
           /\ libraryCall[c].step = "inventory" /\ libraryCall[c].present
                => libraryCall[c].image \in objects
           /\ libraryCall[c].step = "store" => libraryCall[c].image \in blobs
           /\ libraryCall[c].step \in {"update", "winner", "adopt"} \/ libraryCall[c].found # None
                => assets[<<libraryCall[c].owner, libraryCall[c].image>>] \in Registrations
           /\ assets[<<libraryCall[c].owner, libraryCall[c].image>>] \in Rows
           /\ assets[<<libraryCall[c].owner, libraryCall[c].image>>] # None
                => libraryCall[c].image \in objects \cap blobs
  <1>1. libraryCall[c] \in UploadCalls  BY AtUpload DEF ServedInv
  <1>2. /\ libraryCall[c].owner \in Artists /\ libraryCall[c].image \in Images
        /\ libraryCall[c].found \in Rows
    BY <1>1 DEF UploadCalls
  <1>3. CallOK(libraryCall[c], assets, objects, blobs)  BY DEF ServedInv
  <1>4. assets[<<libraryCall[c].owner, libraryCall[c].image>>] \in Rows
    BY <1>2 DEF ServedInv, Shapes
  <1>. QED  BY <1>1, <1>2, <1>3, <1>4 DEF ServedInv, CallOK

LEMMA ServedFind ==
    ASSUME ServedInv, NEW c \in LibraryCalls, FindRegistration(c)  PROVE ServedInv'
  <1>. DEFINE r == libraryCall[c]
              row == assets[<<r.owner, r.image>>]
  <1>0. r.step = "find" /\ r.step \in UploadSteps /\ UNCHANGED Tables
    BY DEF FindRegistration, UploadSteps
  <1>1. r \in UploadCalls /\ row \in Rows /\ (row # None => r.image \in objects \cap blobs)
    BY <1>0, Relied
  <1>1a. r.found # None => row \in Registrations  BY <1>0, Relied
  <1>2. CASE Live(r.owner, r.image) /\ Registered(c)
    <2>1. r.image \in objects \cap blobs /\ row \in Registrations  BY <1>1, <1>2 DEF Live, Rows
    <2>2. PICK q \in UploadCalls \cup GrantCalls \cup {IdleWish} :
              Move(c, q) /\ CallOK(q, assets, objects, blobs)
      BY <1>1, <1>2, <2>1, RegisteredOn
    <2>. QED  BY <1>0, <2>2, KeptReading
  <1>3. ASSUME NEW s \in {"update", "head"}, s = "update" => Live(r.owner, r.image),
               Move(c, [r EXCEPT !.step = s, !.found = row])
        PROVE  ServedInv'
    <2>. DEFINE q == [r EXCEPT !.step = s, !.found = row]
    <2>1. s \in UploadSteps  BY DEF UploadSteps
    <2>2. /\ q \in UploadCalls /\ q.step = s
          /\ q.owner = r.owner /\ q.image = r.image /\ q.found = row
      <3>. HIDE DEF r, row
      <3>. QED  BY <1>1, <2>1 DEF UploadCalls
    <2>. HIDE DEF q
    <2>3. s = "update" => r.image \in objects \cap blobs /\ row \in Registrations
      BY <1>1, <1>3 DEF Live, Rows
    <2>4. CallOK(q, assets, objects, blobs)  BY <1>1, <2>2, <2>3 DEF CallOK, Placed, Rows
    <2>. QED  BY <1>0, <1>3, <2>2, <2>4, KeptReading DEF q
  <1>. QED  BY <1>2, <1>3 DEF FindRegistration

LEMMA ServedHead ==
    ASSUME ServedInv, NEW c \in LibraryCalls, HeadObject(c)  PROVE ServedInv'
  <1>. DEFINE r == libraryCall[c]
              q == [r EXCEPT !.step = "inventory", !.present = r.image \in objects]
  <1>0. r.step = "head" /\ r.step \in UploadSteps /\ UNCHANGED Tables
    BY DEF HeadObject, UploadSteps
  <1>1. CASE Move(c, q)
    <2>1. r \in UploadCalls
          /\ (r.found # None => assets[<<r.owner, r.image>>] \in Registrations)
      BY <1>0, Relied
    <2>1a. "inventory" \in UploadSteps /\ (r.image \in objects) \in BOOLEAN
      BY DEF UploadSteps
    <2>2. /\ q \in UploadCalls /\ q.step = "inventory"
          /\ q.owner = r.owner /\ q.image = r.image /\ q.found = r.found
          /\ q.present = (r.image \in objects)
      <3>. HIDE DEF r
      <3>. QED  BY <2>1, <2>1a DEF UploadCalls
    <2>. HIDE DEF q
    <2>3. CallOK(q, assets, objects, blobs)  BY <2>1, <2>2 DEF CallOK, Placed
    <2>. QED  BY <1>0, <1>1, <2>2, <2>3, KeptReading
  <1>2. CASE Over(c)  BY <1>0, <1>2, NothingToRely, KeptReading DEF Over
  <1>. QED  BY <1>1, <1>2 DEF HeadObject

\* Shorthand for the tables after a step that writes no registration and no avatar.
LEMMA SameRows ==
    ASSUME ServedInv, objects \subseteq objects', UNCHANGED <<assets, avatar>>
    PROVE  /\ assets' \in [Artists \X Images -> Rows]
           /\ avatar' \in [Artists -> Images \cup {"legacy", None}]
           /\ \A o \in Artists, i \in Images :
                   assets[<<o, i>>] \in Registrations => assets'[<<o, i>>] \in Registrations
           /\ \A o \in Artists, i \in Images : assets'[<<o, i>>] # None => i \in objects'
           /\ \A a \in Artists : avatar'[a] \in Images => avatar'[a] \in objects'
  BY DEF ServedInv, Shapes

\* The inventory row comes before the object.
LEMMA ServedInventory ==
    ASSUME ServedInv, NEW c \in LibraryCalls, Inventory(c)  PROVE ServedInv'
  <1>. DEFINE r == libraryCall[c]
              s == IF r.present THEN "register" ELSE "store"
              q == [r EXCEPT !.step = s]
  <1>0. /\ r.step = "inventory" /\ r.step \in UploadSteps
        /\ blobs' = blobs \cup {r.image} /\ UNCHANGED <<objects, assets, avatar>>
    BY DEF Inventory, UploadSteps
  <1>1. /\ r \in UploadCalls /\ (r.present => r.image \in objects)
        /\ (r.found # None => assets[<<r.owner, r.image>>] \in Registrations)
    BY <1>0, Relied
  <1>2. s \in UploadSteps  BY DEF UploadSteps
  <1>3. /\ q \in UploadCalls /\ q.step = s
        /\ q.owner = r.owner /\ q.image = r.image /\ q.found = r.found
    BY <1>1, <1>2, Onward
  <1>4. libraryCall' = [libraryCall EXCEPT ![c] = q]  BY DEF Inventory, To, Move
  <1>. HIDE DEF q
  <1>5. objects' \subseteq blobs' /\ objects \subseteq objects' /\ blobs \subseteq blobs'
    BY <1>0 DEF ServedInv
  <1>6. r.present => r.image \in objects' \cap blobs'  BY <1>0, <1>1
  <1>7. CallOK(q, assets', objects', blobs')
    <2>1. s = "register" => r.image \in objects' \cap blobs'  BY <1>6
    <2>2. r.image \in blobs' /\ assets' = assets  BY <1>0
    <2>3. s \in {"register", "store"}  OBVIOUS
    <2>. HIDE DEF s
    <2>. QED  BY <1>1, <1>3, <2>1, <2>2, <2>3 DEF CallOK, Placed
  <1>. HIDE DEF r, s
  <1>. QED  BY <1>0, <1>3, <1>4, <1>5, <1>7, SameRows, Kept

\* An object is stored under a key that is listed.
LEMMA ServedStore ==
    ASSUME ServedInv, NEW c \in LibraryCalls, Store(c)  PROVE ServedInv'
  <1>. DEFINE r == libraryCall[c]
              q == [r EXCEPT !.step = "register"]
  <1>0. /\ r.step = "store" /\ r.step \in UploadSteps /\ UNCHANGED <<blobs, assets, avatar>>
    BY DEF Store, UploadSteps
  <1>1. /\ r \in UploadCalls /\ r.image \in blobs
        /\ (r.found # None => assets[<<r.owner, r.image>>] \in Registrations)
    BY <1>0, Relied
  <1>2. CASE objects' = objects \cup {r.image} /\ Move(c, q)
    <2>1. "register" \in UploadSteps  BY DEF UploadSteps
    <2>2. /\ q \in UploadCalls /\ q.step = "register"
          /\ q.owner = r.owner /\ q.image = r.image /\ q.found = r.found
      BY <1>1, <2>1, Onward
    <2>. HIDE DEF q
    <2>3. /\ objects' \subseteq blobs' /\ objects \subseteq objects' /\ blobs \subseteq blobs'
          /\ r.image \in objects' \cap blobs'
      BY <1>0, <1>1, <1>2 DEF ServedInv
    <2>4. CallOK(q, assets', objects', blobs')
      BY <1>0, <1>1, <2>2, <2>3 DEF CallOK, Placed
    <2>. QED  BY <1>0, <1>2, <2>2, <2>3, <2>4, SameRows, Kept DEF Move
  <1>3. CASE UNCHANGED objects /\ Over(c)
    <2>1. UNCHANGED Tables  BY <1>3 DEF Store, Tables
    <2>. QED  BY <1>3, <2>1, NothingToRely, KeptReading DEF Over
  <1>. QED  BY <1>2, <1>3 DEF Store, To

\* updateRegistration writes a registration over the one that is there.
LEMMA UpdatedIs ==
    ASSUME ServedInv, NEW r \in UploadCalls, NEW b \in BOOLEAN,
           assets[<<r.owner, r.image>>] \in Registrations
    PROVE  \E row \in Registrations :
               Updated(r, b) = [assets EXCEPT ![<<r.owner, r.image>>] = row]
  <1>. DEFINE x == <<r.owner, r.image>>
              row == [sharing |-> Requested(r), live |-> assets[x].live \/ b]
  <1>1. r.owner \in Artists /\ r.image \in Images /\ r.sharing \in Sharings \cup {None}
    BY DEF UploadCalls
  <1>2. row \in Registrations  BY <1>1 DEF Requested, Sharings, Registrations
  <1>3. x \in DOMAIN assets  BY <1>1 DEF ServedInv, Shapes
  <1>4. Updated(r, b) = [assets EXCEPT ![x] = row]  BY <1>3 DEF Updated, Registrations
  <1>. QED  BY <1>2, <1>4

\* A step that writes one registration, of an image that is stored.
LEMMA RowWritten ==
    ASSUME ServedInv, NEW c \in LibraryCalls, NEW q,
           q \in UploadCalls \cup GrantCalls \cup {IdleWish}, Move(c, q),
           NEW o \in Artists, NEW i \in Images, NEW row \in Registrations, i \in objects,
           assets' = [assets EXCEPT ![<<o, i>>] = row], UNCHANGED <<blobs, objects, avatar>>,
           CallOK(q, assets', objects', blobs')
    PROVE  ServedInv'
  <1>1. /\ assets' \in [Artists \X Images -> Rows]
        /\ \A p \in Artists, j \in Images :
               assets[<<p, j>>] \in Registrations => assets'[<<p, j>>] \in Registrations
        /\ \A p \in Artists, j \in Images : assets'[<<p, j>>] # None => j \in objects'
    BY DEF ServedInv, Shapes, Rows
  <1>2. /\ objects \subseteq objects' /\ blobs \subseteq blobs' /\ objects' \subseteq blobs'
        /\ avatar' \in [Artists -> Images \cup {"legacy", None}]
        /\ \A a \in Artists : avatar'[a] \in Images => avatar'[a] \in objects'
    BY DEF ServedInv, Shapes
  <1>. QED  BY <1>1, <1>2, Kept DEF Move

\* A row that is updated is a registration of a stored image.
LEMMA UpdateWritten ==
    ASSUME ServedInv, NEW c \in LibraryCalls, NEW r \in UploadCalls, NEW b \in BOOLEAN,
           assets[<<r.owner, r.image>>] \in Registrations, r.image \in objects \cap blobs,
           assets' = Updated(r, b), UNCHANGED <<blobs, objects, avatar>>,
           NEW q \in UploadCalls \cup GrantCalls \cup {IdleWish}, Move(c, q),
           assets'[<<r.owner, r.image>>] \in Registrations => CallOK(q, assets', objects', blobs')
    PROVE  ServedInv'
  <1>1. PICK row \in Registrations : assets' = [assets EXCEPT ![<<r.owner, r.image>>] = row]
    BY UpdatedIs
  <1>2. r.owner \in Artists /\ r.image \in Images  BY DEF UploadCalls
  <1>3. assets'[<<r.owner, r.image>>] \in Registrations
    BY <1>1, <1>2 DEF ServedInv, Shapes
  <1>. QED  BY <1>1, <1>2, <1>3, RowWritten

LEMMA ServedRetag ==
    ASSUME ServedInv, NEW c \in LibraryCalls, Retag(c)  PROVE ServedInv'
  <1>. DEFINE r == libraryCall[c]
  <1>0. /\ r.step = "update" /\ r.step \in UploadSteps
        /\ assets' = Updated(r, FALSE) /\ Over(c) /\ UNCHANGED <<blobs, objects, avatar>>
    BY DEF Retag, UploadSteps
  <1>1. /\ r \in UploadCalls /\ assets[<<r.owner, r.image>>] \in Registrations
        /\ r.image \in objects \cap blobs
    BY <1>0, Relied DEF Placed
  <1>. QED  BY <1>0, <1>1, NothingToRely, UpdateWritten DEF Over

LEMMA ServedAdopt ==
    ASSUME ServedInv, NEW c \in LibraryCalls, AdoptWinner(c)  PROVE ServedInv'
  <1>. DEFINE r == libraryCall[c]
  <1>0. /\ r.step = "adopt" /\ r.step \in UploadSteps
        /\ assets' = Updated(r, ~r.found.live) /\ Registered(c)
        /\ UNCHANGED <<blobs, objects, avatar>>
    BY DEF AdoptWinner, UploadSteps
  <1>1. /\ r \in UploadCalls /\ assets[<<r.owner, r.image>>] \in Registrations
        /\ r.image \in objects \cap blobs /\ r.owner \in Artists /\ r.image \in Images
    BY <1>0, Relied DEF Placed
  <1>2. (~r.found.live) \in BOOLEAN  OBVIOUS
  <1>3. PICK row \in Registrations : assets' = [assets EXCEPT ![<<r.owner, r.image>>] = row]
    BY <1>0, <1>1, <1>2, UpdatedIs
  <1>4. assets'[<<r.owner, r.image>>] \in Registrations
    BY <1>1, <1>3 DEF ServedInv, Shapes
  <1>5. r.image \in objects' \cap blobs'  BY <1>0, <1>1
  <1>6. PICK q \in UploadCalls \cup GrantCalls \cup {IdleWish} :
            Move(c, q) /\ CallOK(q, assets', objects', blobs')
    BY <1>0, <1>1, <1>4, <1>5, RegisteredOn
  <1>. QED  BY <1>0, <1>1, <1>2, <1>6, UpdateWritten

\* A tombstone found before is reactivated, a row is inserted, or another call was first.
LEMMA ServedRegister ==
    ASSUME ServedInv, NEW c \in LibraryCalls, Register(c)  PROVE ServedInv'
  <1>. DEFINE r == libraryCall[c]
              row == assets[<<r.owner, r.image>>]
  <1>0. /\ r.step = "register" /\ r.step \in UploadSteps /\ r.step \in Placed
        /\ UNCHANGED <<blobs, objects, grants, avatar, legacy, wishes>>
    BY DEF Register, UploadSteps, Placed
  <1>1. /\ r \in UploadCalls /\ (r.found # None => row \in Registrations) /\ row \in Rows
        /\ r.image \in objects \cap blobs /\ r.owner \in Artists /\ r.image \in Images
    BY <1>0, Relied
  <1>2. r.image \in objects' \cap blobs'  BY <1>0, <1>1
  <1>3. ASSUME NEW new \in Registrations, Registered(c),
               assets' = [assets EXCEPT ![<<r.owner, r.image>>] = new]
        PROVE  ServedInv'
    <2>1. assets'[<<r.owner, r.image>>] \in Registrations
      BY <1>1, <1>3 DEF ServedInv, Shapes
    <2>2. PICK q \in UploadCalls \cup GrantCalls \cup {IdleWish} :
              Move(c, q) /\ CallOK(q, assets', objects', blobs')
      BY <1>1, <1>2, <1>3, <2>1, RegisteredOn
    <2>. QED  BY <1>0, <1>1, <1>3, <2>2, RowWritten
  <1>4. CASE r.found # None /\ assets' = Updated(r, TRUE) /\ Registered(c)
    <2>1. PICK new \in Registrations : assets' = [assets EXCEPT ![<<r.owner, r.image>>] = new]
      BY <1>1, <1>4, UpdatedIs
    <2>. QED  BY <1>3, <1>4, <2>1
  <1>5. CASE /\ r.found = None /\ row = None /\ Registered(c)
             /\ assets' = [assets EXCEPT ![<<r.owner, r.image>>] =
                               [sharing |-> Requested(r), live |-> TRUE]]
    <2>1. [sharing |-> Requested(r), live |-> TRUE] \in Registrations
      BY <1>1 DEF UploadCalls, Requested, Sharings, Registrations
    <2>. QED  BY <1>3, <1>5, <2>1
  <1>6. CASE r.found = None /\ row # None /\ UNCHANGED assets /\ To(c, "winner")
    <2>. DEFINE q == [r EXCEPT !.step = "winner"]
    <2>1. "winner" \in UploadSteps  BY DEF UploadSteps
    <2>2. /\ q \in UploadCalls /\ q.step = "winner"
          /\ q.owner = r.owner /\ q.image = r.image /\ q.found = r.found
      BY <1>1, <2>1, Onward
    <2>3. Move(c, q)  BY <1>6 DEF To
    <2>. HIDE DEF q
    <2>4. CallOK(q, assets, objects, blobs)  BY <1>1, <1>6, <2>2 DEF CallOK, Placed, Rows
    <2>5. UNCHANGED Tables  BY <1>0, <1>6 DEF Tables
    <2>. QED  BY <2>2, <2>3, <2>4, <2>5, KeptReading
  <1>. QED  BY <1>4, <1>5, <1>6 DEF Register

LEMMA ServedWinner ==
    ASSUME ServedInv, NEW c \in LibraryCalls, ReadWinner(c)  PROVE ServedInv'
  <1>. DEFINE r == libraryCall[c]
              row == assets[<<r.owner, r.image>>]
  <1>0. r.step = "winner" /\ r.step \in UploadSteps /\ r.step \in Placed /\ UNCHANGED Tables
    BY DEF ReadWinner, UploadSteps, Placed
  <1>1. /\ r \in UploadCalls /\ row \in Registrations /\ row \in Rows
        /\ r.image \in objects \cap blobs
    BY <1>0, Relied
  <1>2. CASE Registered(c)
    <2>1. PICK q \in UploadCalls \cup GrantCalls \cup {IdleWish} :
              Move(c, q) /\ CallOK(q, assets, objects, blobs)
      BY <1>1, <1>2, RegisteredOn
    <2>. QED  BY <1>0, <2>1, KeptReading
  <1>3. CASE Move(c, [r EXCEPT !.step = "adopt", !.found = row])
    <2>. DEFINE q == [r EXCEPT !.step = "adopt", !.found = row]
    <2>1. "adopt" \in UploadSteps  BY DEF UploadSteps
    <2>2. /\ q \in UploadCalls /\ q.step = "adopt"
          /\ q.owner = r.owner /\ q.image = r.image
      <3>. HIDE DEF r, row
      <3>. QED  BY <1>1, <2>1 DEF UploadCalls
    <2>. HIDE DEF q
    <2>3. CallOK(q, assets, objects, blobs)  BY <1>1, <2>2 DEF CallOK
    <2>. QED  BY <1>0, <1>3, <2>2, <2>3, KeptReading DEF q
  <1>. QED  BY <1>2, <1>3 DEF ReadWinner

\* The old object of a surface is not one of the library.
LEMMA ServedDrop ==
    ASSUME ServedInv, NEW c \in LibraryCalls, DropLegacy(c)  PROVE ServedInv'
  <1>. DEFINE r == libraryCall[c]
  <1>0. /\ r.step = "drop" /\ r.step \in UploadSteps /\ r.step \in Placed /\ After(c, "set")
        /\ UNCHANGED <<assets, objects, blobs, avatar>>
    BY DEF DropLegacy, UploadSteps, Placed
  <1>1. /\ r \in UploadCalls /\ (r.found # None => assets[<<r.owner, r.image>>] \in Registrations)
        /\ r.image \in objects \cap blobs
    BY <1>0, Relied
  <1>2. PICK q \in UploadCalls \cup GrantCalls \cup {IdleWish} :
            Move(c, q) /\ CallOK(q, assets, objects, blobs)
    BY <1>0, <1>1, RegisteredOn
  <1>3. /\ CallOK(q, assets', objects', blobs') /\ libraryCall' = [libraryCall EXCEPT ![c] = q]
        /\ objects \subseteq objects' /\ blobs \subseteq blobs' /\ objects' \subseteq blobs'
    BY <1>0, <1>2 DEF Move, ServedInv
  <1>. QED  BY <1>0, <1>3, SameRows, Kept

LEMMA ServedAvatar ==
    ASSUME ServedInv, NEW c \in LibraryCalls, SetAvatar(c)  PROVE ServedInv'
  <1>. DEFINE r == libraryCall[c]
  <1>0. /\ r.step = "set" /\ r.step \in UploadSteps /\ r.step \in Placed /\ After(c, "drop")
        /\ avatar' = [avatar EXCEPT ![r.owner] = r.image] /\ UNCHANGED <<assets, objects, blobs>>
    BY DEF SetAvatar, UploadSteps, Placed
  <1>1. /\ r \in UploadCalls /\ (r.found # None => assets[<<r.owner, r.image>>] \in Registrations)
        /\ r.image \in objects \cap blobs /\ r.owner \in Artists /\ r.image \in Images
    BY <1>0, Relied
  <1>2. PICK q \in UploadCalls \cup GrantCalls \cup {IdleWish} :
            Move(c, q) /\ CallOK(q, assets, objects, blobs)
    BY <1>0, <1>1, RegisteredOn
  <1>3. /\ CallOK(q, assets', objects', blobs') /\ libraryCall' = [libraryCall EXCEPT ![c] = q]
        /\ objects \subseteq objects' /\ blobs \subseteq blobs' /\ objects' \subseteq blobs'
    BY <1>0, <1>2 DEF Move, ServedInv
  <1>4. /\ assets' \in [Artists \X Images -> Rows]
        /\ \A o \in Artists, i \in Images :
               assets[<<o, i>>] \in Registrations => assets'[<<o, i>>] \in Registrations
        /\ \A o \in Artists, i \in Images : assets'[<<o, i>>] # None => i \in objects'
    BY <1>0 DEF ServedInv, Shapes
  <1>5. /\ avatar' \in [Artists -> Images \cup {"legacy", None}]
        /\ \A a \in Artists : avatar'[a] \in Images => avatar'[a] \in objects'
    BY <1>0, <1>1 DEF ServedInv, Shapes
  <1>. QED  BY <1>3, <1>4, <1>5, Kept

\* A call that begins relies on nothing yet.
LEMMA ServedBegin ==
    ASSUME ServedInv, NEW c \in LibraryCalls, NEW r, Begin(c, r),
           \/ r \in GrantCalls
           \/ r \in UploadCalls /\ r.step = "find" /\ r.found = None
    PROVE  ServedInv'
  <1>1. Move(c, r) /\ UNCHANGED Tables  BY DEF Begin, Move
  <1>2. CASE r \in GrantCalls  BY <1>1, <1>2, NothingToRely, KeptReading
  <1>3. CASE r \in UploadCalls /\ r.step = "find" /\ r.found = None
    <2>1. CallOK(r, assets, objects, blobs)  BY <1>3 DEF CallOK, Placed
    <2>. QED  BY <1>1, <1>3, <2>1, KeptReading
  <1>. QED  BY <1>2, <1>3

LEMMA ServedUpload ==
    ASSUME ServedInv, NEW c \in LibraryCalls, NEW o \in Artists, NEW i \in Images,
           NEW s \in Sharings \cup {None}, NEW form \in {"profile", "library"},
           Upload(c, o, i, s, form)
    PROVE  ServedInv'
  <1>. DEFINE r == [step |-> "find", owner |-> o, image |-> i, sharing |-> s, form |-> form,
                    old |-> avatar[o], found |-> None, present |-> FALSE]
  <1>1. avatar[o] \in Images \cup {"legacy", None}  BY DEF ServedInv, Shapes
  <1>2. r \in UploadCalls  BY <1>1 DEF UploadCalls, UploadSteps, Rows
  <1>3. r.step = "find" /\ r.found = None  OBVIOUS
  <1>4. Begin(c, r)  BY DEF Upload
  <1>. HIDE DEF r
  <1>. QED  BY <1>2, <1>3, <1>4, ServedBegin

LEMMA ServedSharing ==
    ASSUME ServedInv, NEW c \in LibraryCalls, NEW o \in Artists, NEW i \in Images,
           NEW a \in Artists, Grant(c, o, i, a) \/ Revoke(c, o, i, a)
    PROVE  ServedInv'
  <1>. DEFINE r(s) == [step |-> s, owner |-> o, image |-> i, grantee |-> a]
  <1>1. r("grant") \in GrantCalls /\ r("revoke") \in GrantCalls  BY DEF GrantCalls
  <1>2. Begin(c, r("grant")) \/ Begin(c, r("revoke"))  BY DEF Grant, Revoke
  <1>. HIDE DEF r
  <1>. QED  BY <1>1, <1>2, ServedBegin

\* Grants say who may use an image, not whether it is there.
LEMMA ServedGrants ==
    ASSUME ServedInv, NEW c \in LibraryCalls, InsertGrant(c) \/ DeleteGrant(c)
    PROVE  ServedInv'
  <1>1. Over(c) /\ UNCHANGED <<blobs, objects, assets, avatar>>
    BY DEF InsertGrant, DeleteGrant
  <1>2. /\ CallOK(IdleWish, assets', objects', blobs')
        /\ libraryCall' = [libraryCall EXCEPT ![c] = IdleWish]
        /\ objects \subseteq objects' /\ blobs \subseteq blobs' /\ objects' \subseteq blobs'
    BY <1>1, NothingToRely DEF Over, Move, ServedInv
  <1>. QED  BY <1>1, <1>2, SameRows, Kept

\* A tombstone leaves the object where it is.
LEMMA ServedDelete ==
    ASSUME ServedInv, NEW o \in Artists, NEW i \in Images, DeleteAsset(o, i)
    PROVE  ServedInv'
  <1>. DEFINE row == [assets[<<o, i>>] EXCEPT !.live = FALSE]
  <1>1. assets[<<o, i>>] \in Registrations  BY DEF ServedInv, Shapes, Rows, DeleteAsset, Live
  <1>2. row \in Registrations  BY <1>1 DEF Registrations
  <1>3. i \in objects  BY DEF ServedInv, DeleteAsset, Live
  <1>4. /\ assets' = [assets EXCEPT ![<<o, i>>] = row]
        /\ UNCHANGED <<blobs, objects, avatar, libraryCall>>
    BY DEF DeleteAsset
  <1>. HIDE DEF row
  <1>5. Shapes'  BY <1>2, <1>4 DEF ServedInv, Shapes, Rows
  <1>6. \A p \in Artists, j \in Images :
            assets[<<p, j>>] \in Registrations => assets'[<<p, j>>] \in Registrations
    BY <1>2, <1>4 DEF ServedInv, Shapes
  <1>7. ASSUME NEW c \in LibraryCalls
        PROVE  CallOK(libraryCall'[c], assets', objects', blobs')
    <2>1. CallOK(libraryCall[c], assets, objects, blobs)  BY DEF ServedInv
    <2>2. SUFFICES ASSUME libraryCall[c].step \in UploadSteps
                   PROVE  CallOK(libraryCall[c], assets', objects', blobs')
      BY <1>4 DEF CallOK
    <2>3. libraryCall[c].owner \in Artists /\ libraryCall[c].image \in Images
      BY <2>2, Relied
    <2>. QED  BY <1>4, <1>6, <2>1, <2>2, <2>3 DEF CallOK
  <1>8. \A p \in Artists, j \in Images : assets'[<<p, j>>] # None => j \in objects'
    BY <1>3, <1>4 DEF ServedInv, Shapes
  <1>. QED  BY <1>4, <1>5, <1>7, <1>8 DEF ServedInv

LEMMA ServedCrash ==
    ASSUME ServedInv, LibraryCrash  PROVE ServedInv'
  <1>1. /\ libraryCall' = [c \in LibraryCalls |-> IdleWish]
        /\ assets' = assets /\ objects' = objects /\ blobs' = blobs /\ avatar' = avatar
    BY DEF LibraryCrash, Tables
  <1>2. Shapes'  BY <1>1 DEF ServedInv, Shapes
  <1>3. \A c \in LibraryCalls : CallOK(libraryCall'[c], assets', objects', blobs')
    BY <1>1, NothingToRely
  <1>. QED  BY <1>1, <1>2, <1>3 DEF ServedInv

\* At the start no library image is registered or shown.
LEMMA ServedInit ==
    ASSUME LibraryAssumption, LibraryInit  PROVE ServedInv
  <1>1. Shapes  BY DEF LibraryInit, Shapes, Rows
  <1>2. \A c \in LibraryCalls : CallOK(libraryCall[c], assets, objects, blobs)
    BY NothingToRely DEF LibraryInit
  <1>3. objects \subseteq blobs  BY DEF LibraryInit
  <1>4. \A o \in Artists, i \in Images : assets[<<o, i>>] = None  BY DEF LibraryInit
  <1>5. \A a \in Artists : avatar[a] \notin Images
    BY DEF LibraryInit, LibraryAssumption
  <1>. QED  BY <1>1, <1>2, <1>3, <1>4, <1>5 DEF ServedInv

LEMMA ServedCall ==
    ASSUME ServedInv, NEW c \in LibraryCalls, LibraryStep(c)  PROVE ServedInv'
  BY ServedFind, ServedHead, ServedInventory, ServedStore, ServedRetag, ServedRegister,
     ServedWinner, ServedAdopt, ServedDrop, ServedAvatar, ServedGrants DEF LibraryStep

\* The invariant is inductive: one lemma above for each action.
LEMMA ServedNext ==
    ASSUME ServedInv, [LibraryNext]_libraryVars  PROVE ServedInv'
  <1>1. ASSUME NEW c \in LibraryCalls, NEW o \in Artists, NEW i \in Images,
               \/ \E s \in Sharings : Upload(c, o, i, s, "library")
               \/ \E form \in {"profile", "library"} : Upload(c, o, i, None, form)
        PROVE  ServedInv'
    BY <1>1, ServedUpload
  <1>2. CASE UNCHANGED libraryVars
    BY <1>2 DEF libraryVars, ServedInv, Shapes
  <1>3. CASE LibraryNext
    <2>1. ASSUME NEW c \in LibraryCalls, LibraryStep(c)  PROVE ServedInv'
      BY <2>1, ServedCall
    <2>2. ASSUME NEW c \in LibraryCalls, NEW o \in Artists, NEW i \in Images,
                 \E a \in Artists : Grant(c, o, i, a) \/ Revoke(c, o, i, a)
          PROVE  ServedInv'
      BY <2>2, ServedSharing
    <2>3. ASSUME NEW o \in Artists, NEW i \in Images, DeleteAsset(o, i)  PROVE ServedInv'
      BY <2>3, ServedDelete
    <2>. QED  BY <1>1, <1>3, <2>1, <2>2, <2>3, ServedCrash DEF LibraryNext
  <1>. QED  BY <1>2, <1>3

-----------------------------------------------------------------------------
\* library.ts: whatever calls overlap, fail or die, the image of a live registration
\* and the library image a profile shows are in the store.
THEOREM ImagesServed ==
    ASSUME LibraryAssumption  PROVE LibrarySpec => []RegisteredIsServed
  <1>1. LibraryInit => ServedInv  BY ServedInit
  <1>2. ServedInv /\ [LibraryNext]_libraryVars => ServedInv'  BY ServedNext
  <1>3. ServedInv => RegisteredIsServed  BY DEF ServedInv, RegisteredIsServed, Live
  <1>. QED  BY <1>1, <1>2, <1>3, PTL DEF LibrarySpec

\* library.ts:269: what is in the store can be enumerated from the inventory, also
\* after a failure or a crash between the two writes.
THEOREM Inventoried ==
    ASSUME LibraryAssumption  PROVE LibrarySpec => []StoredIsInventoried
  <1>1. LibraryInit => ServedInv  BY ServedInit
  <1>2. ServedInv /\ [LibraryNext]_libraryVars => ServedInv'  BY ServedNext
  <1>3. ServedInv => StoredIsInventoried  BY DEF ServedInv, StoredIsInventoried
  <1>. QED  BY <1>1, <1>2, <1>3, PTL DEF LibrarySpec

\* library.ts: the list and the press kit agree on who may use an image in every state
\* of the tables, reachable or not: no invariant is needed.
THEOREM OneRule ==
    LibrarySpec => []UseAgrees
  <1>1. ASSUME NEW a \in Artists, NEW i \in Images
        PROVE  CanUse(a, i) <=> UseStatus(a, i) # "requestable-needs-grant"
    <2>. DEFINE open    == \E o \in Artists : Live(o, i) /\ assets[<<o, i>>].sharing = "open"
                granted == \E o \in Artists :
                              /\ Live(o, i) /\ Granted(a, o, i)
                              /\ assets[<<o, i>>].sharing = "requestable"
    <2>1. CanUse(a, i) <=> Live(a, i) \/ open \/ granted  BY DEF CanUse
    <2>2. UseStatus(a, i) =
              CASE Live(a, i) -> "own"
                [] ~Live(a, i) /\ open -> "open"
                [] ~Live(a, i) /\ ~open /\ granted -> "granted"
                [] OTHER -> "requestable-needs-grant"
      BY DEF UseStatus
    <2>. HIDE DEF open, granted
    <2>. QED  BY <2>1, <2>2
  <1>2. UseAgrees  BY <1>1 DEF UseAgrees
  <1>. QED  BY <1>2, PTL DEF LibrarySpec

-----------------------------------------------------------------------------
(* MediaPipeline *)

TaskRecords == [step: Jobs \cup Calls \cup {"idle"}, file: Files \cup {None},
                old: Files \cup {None, "custom", "media", "thumb"},
                sweep: SUBSET Objects, from: Nat]

\* A job that is to read a file has one.
Reads == {"probeRead", "transcodeRead", "thumbRead"}
TaskRecs == {t \in TaskRecords : t.step \in Reads => t.file \in Files}

MediaRanges ==
    /\ object \in [Objects -> Nat] /\ uploads \in Nat /\ landed \subseteq Files
    /\ item \in Items
    /\ task \in [MediaTasks -> TaskRecs]

\* The kinds of object that task t may have taken from the row's keys.
Lacks(t) ==
    IF t.step \in {"record", "replace", "replaceRow"} THEN {"media"}
    ELSE IF t.step \in {"sweep", "clearRow"}
    THEN IF t.old = "thumb" THEN {"thumb"} ELSE {"media", "transcoded", "thumb"}
    ELSE {}

\* The row's keys lead to objects, but for those.
Whole(t) ==
    /\ item.media = None \/ object[<<"media", item.media>>] # 0 \/ "media" \in Lacks(t)
    /\ item.transcoded = None \/ object[<<"transcoded", item.transcoded>>] # 0
          \/ "transcoded" \in Lacks(t)
    /\ item.thumb \notin Files \/ object[<<"thumb", item.thumb>>] # 0 \/ "thumb" \in Lacks(t)

\* What task t has made sure of.
Fits(t) ==
    /\ t.step \in {"findOld", "dropOld", "record", "replaceRow"} =>
          t.file \in Files /\ object[<<"media", t.file>>] # 0
    /\ t.step \in {"replace", "tooBig"} => t.file \in Files
    /\ t.step = "dropOld" => t.old = item.media
    /\ t.step \in {"probeRead", "transcodeRead", "transcodeSave", "transcodeRow",
                   "thumbRead", "thumbSave", "thumbRow"} => t.file \in Files
    /\ t.step \in {"transcodeSave", "thumbSave"} => t.from # 0
    /\ t.step = "transcodeRow" => object[<<"transcoded", t.file>>] # 0
    /\ t.step = "thumbRow" => object[<<"thumb", t.file>>] # 0
    /\ t.step \in {"thumbRead", "thumbSave", "thumbRow"} => item.thumb \notin Files
    /\ t.step = "sweep" => /\ t.old \in {"media", "thumb"}
                           /\ t.old = "thumb" => t.sweep \subseteq {"thumb"} \X Files
    /\ t.step = "clearRow" => t.old \in {"media", "thumb"}

Excused == ~(mishap \subseteq {"retry"}) \/ item.deleted
Busy(h) == task[h].step # "idle"

\* While one task runs at a time, it has what it needs and the row lacks what it took,
\* or nothing if none runs.
WholeInv ==
    Excused \/
        /\ \A g, h \in MediaTasks : Busy(g) /\ Busy(h) => g = h
        /\ \A h \in MediaTasks : Busy(h) => Fits(task[h]) /\ Whole(task[h])
        /\ (\A h \in MediaTasks : ~Busy(h)) => Whole(NoTask)

LEMMA NoTaskIs ==
  /\ NoTask \in TaskRecs /\ NoTask.step = "idle" /\ NoTask.old = None /\ Lacks(NoTask) = {}
BY DEF NoTask, TaskRecs, TaskRecords, Reads, Lacks

\* The task in slot h begins as r, goes on to it, or ends.
LEMMA TaskGoes ==
  ASSUME MediaRanges, WholeInv, NEW h \in MediaTasks, NEW r \in TaskRecs,
         object' \in [Objects -> Nat], uploads' \in Nat, landed' \subseteq Files, item' \in Items,
         task' = [task EXCEPT ![h] = r], mishap \subseteq mishap', item.deleted => item'.deleted,
         ~Excused' => /\ \A g \in MediaTasks : Busy(g) => g = h
                      /\ r.step = "idle" \/ Fits(r)'
                      /\ Whole(r)'
  PROVE  MediaRanges' /\ WholeInv'
<1>1. task'[h] = r /\ task' \in [MediaTasks -> TaskRecs]
      /\ \A g \in MediaTasks : g # h => task'[g] = task[g]
  BY DEF MediaRanges
<1>2. MediaRanges'
  BY <1>1 DEF MediaRanges
<1>3. ASSUME ~Excused' PROVE WholeInv'
  <2>1. \A g \in MediaTasks : Busy(g)' => g = h
    BY <1>1, <1>3 DEF Busy
  <2>2. Busy(h)' => Fits(r)'
    BY <1>1, <1>3 DEF Busy
  <2>3. (~Busy(h))' => Whole(NoTask)'
    <3>1. r.step = "idle" => Lacks(r) = {}
      BY DEF Lacks
    <3> QED
      BY <1>1, <1>3, <3>1, NoTaskIs DEF Busy, Whole
  <2> QED
    BY <1>1, <1>3, <2>1, <2>2, <2>3 DEF WholeInv
<1> QED
  BY <1>2, <1>3 DEF WholeInv

LEMMA StillExcused ==
  ASSUME mishap \subseteq mishap', item.deleted => item'.deleted
  PROVE  Excused => Excused'
BY DEF Excused

\* Who runs, runs alone; and who begins finds no one.
LEMMA RunsAlone ==
  ASSUME WholeInv, ~Excused, NEW h \in MediaTasks, Busy(h)
  PROVE  (\A g \in MediaTasks : Busy(g) => g = h) /\ Fits(task[h]) /\ Whole(task[h])
BY DEF WholeInv

LEMMA BeginsAlone ==
  ASSUME WholeInv, ~Excused, ~Excused', NEW h \in MediaTasks, task[h] = NoTask,
         NEW s, Met(h, s) \subseteq mishap'
  PROVE  (\A g \in MediaTasks : ~Busy(g)) /\ Whole(NoTask)
<1>1. {task[g].step : g \in MediaTasks \ {h}} \ {"idle"} = {}
  BY DEF Excused, Met
<1>2. \A g \in MediaTasks \ {h} : ~Busy(g)
  BY <1>1 DEF Busy
<1> QED
  BY <1>2, NoTaskIs DEF WholeInv, Busy

\* What holds does so when objects only come, and the row keeps its keys.
LEMMA ObjectsCome ==
  ASSUME NEW t, Fits(t), Whole(t), UNCHANGED <<item.media, item.transcoded, item.thumb>>,
         \A o \in Objects : object[o] # 0 => object'[o] # 0, MediaRanges
  PROVE  Fits(t)' /\ Whole(t)'
<1>1. \A f \in Files : <<"media", f>> \in Objects /\ <<"transcoded", f>> \in Objects
                       /\ <<"thumb", f>> \in Objects
  BY DEF Objects
<1>2. item.media \in Files \cup {None} /\ item.transcoded \in Files \cup {None}
  BY DEF MediaRanges, Items
<1>3. Whole(t)'
  BY <1>1, <1>2 DEF Whole
<1>4. Fits(t)'
  BY <1>1 DEF Fits
<1> QED
  BY <1>3, <1>4

LEMMA TaskRecOf ==
  ASSUME NEW t \in TaskRecs, NEW s \in (Jobs \cup Calls \cup {"idle"}) \ Reads
  PROVE  /\ [t EXCEPT !.step = s] \in TaskRecs
         /\ [t EXCEPT !.step = s].step = s /\ [t EXCEPT !.step = s].file = t.file
         /\ [t EXCEPT !.step = s].old = t.old /\ [t EXCEPT !.step = s].from = t.from
         /\ [t EXCEPT !.step = s].sweep = t.sweep
BY DEF TaskRecs, TaskRecords

LEMMA Steps ==
  /\ Reads = {"probeRead", "transcodeRead", "thumbRead"}
  /\ {"tooBig", "findOld", "dropOld", "record", "mark", "send", "sweep", "clearRow", "replace", "replaceRow"} = Calls
  /\ Jobs = {"probeRead", "probeChain", "probeThumb", "transcodeRead", "transcodeSave",
             "transcodeRow", "thumbRead", "thumbSave", "thumbRow"}
  /\ \A f \in Files : <<"media", f>> \in Objects /\ <<"transcoded", f>> \in Objects
                      /\ <<"thumb", f>> \in Objects
BY DEF Calls, Jobs, Objects, Reads

\* One step of a completion.
LEMMA CompleteStepServed ==
  ASSUME MediaAssumption, MediaRanges, WholeInv, NEW h \in MediaTasks, CompleteStep(h)
  PROVE  MediaRanges' /\ WholeInv'
<1>0. task[h] \in TaskRecs /\ item \in Items /\ task[h].file \in Files \cup {None}
      /\ item.media \in Files \cup {None}
  BY DEF MediaRanges, TaskRecs, TaskRecords, Items
<1>1. CASE FindOld(h)
  <2>0. PICK r : r = [task[h] EXCEPT !.step = "dropOld", !.old = item.media]
    OBVIOUS
  <2>1. r \in TaskRecs /\ r.step = "dropOld" /\ r.old = item.media /\ r.file = task[h].file
    BY <1>0, <2>0, Steps DEF TaskRecs, TaskRecords
  <2>2. /\ task' = [task EXCEPT ![h] = r] /\ UNCHANGED <<object, uploads, landed, item, mishap>>
        /\ task[h].step = "findOld"
    BY <1>1, <2>0 DEF FindOld, TaskAt
  <2>3. ASSUME ~Excused'
        PROVE  (\A g \in MediaTasks : Busy(g) => g = h) /\ Fits(r)' /\ Whole(r)'
    <3>1. (\A g \in MediaTasks : Busy(g) => g = h) /\ Fits(task[h]) /\ Whole(task[h])
      BY <2>2, <2>3, RunsAlone DEF Excused, Busy
    <3>2. Fits(r)'
      BY <2>1, <2>2, <3>1 DEF Fits
    <3>3. Whole(r)'
      BY <2>1, <2>2, <3>1 DEF Whole, Lacks
    <3> QED
      BY <3>1, <3>2, <3>3
  <2> QED
    BY <2>1, <2>2, <2>3, TaskGoes DEF MediaRanges
<1>2. CASE DropOld(h)
  <2>0. PICK r : r = [task[h] EXCEPT !.step = "record"]
    OBVIOUS
  <2>1. r \in TaskRecs /\ r.step = "record" /\ r.file = task[h].file
    BY <1>0, <2>0, Steps, TaskRecOf
  <2>2. /\ task' = [task EXCEPT ![h] = r] /\ UNCHANGED <<uploads, landed, item, mishap>>
        /\ task[h].step = "dropOld"
        /\ object' = IF task[h].old \in {None, task[h].file} THEN object
                     ELSE [object EXCEPT ![<<"media", task[h].old>>] = 0]
    BY <1>2, <2>0 DEF DropOld, TaskAt, TaskTo
  <2>3. object' \in [Objects -> Nat]
    BY <2>2 DEF MediaRanges
  <2>4. ASSUME ~Excused'
        PROVE  (\A g \in MediaTasks : Busy(g) => g = h) /\ Fits(r)' /\ Whole(r)'
    <3>1. (\A g \in MediaTasks : Busy(g) => g = h) /\ Fits(task[h]) /\ Whole(task[h])
      BY <2>2, <2>4, RunsAlone DEF Excused, Busy
    <3>2. \A o \in Objects : o = <<"media", task[h].old>> \/ object'[o] = object[o]
      BY <2>2 DEF MediaRanges
    <3>3. task[h].file \in Files /\ object'[<<"media", task[h].file>>] # 0
      <4>1. task[h].file \in Files /\ object[<<"media", task[h].file>>] # 0
        BY <2>2, <3>1 DEF Fits
      <4>2. <<"media", task[h].file>> \in Objects
        BY <4>1, Steps
      <4>3. task[h].old = task[h].file => object' = object
        BY <2>2
      <4> QED
        BY <3>2, <4>1, <4>2, <4>3
    <3>4. Fits(r)'
      BY <2>1, <3>3 DEF Fits
    <3>5. \A f \in Files : /\ <<"transcoded", f>> # <<"media", task[h].old>>
                           /\ <<"thumb", f>> # <<"media", task[h].old>>
      OBVIOUS
    <3>6. Whole(r)'
      <4>1. item.transcoded \in Files \cup {None}
        BY <1>0 DEF Items
      <4> QED
        BY <2>1, <2>2, <3>1, <3>2, <3>5, <4>1, Steps DEF Whole, Lacks
    <3> QED
      BY <3>1, <3>4, <3>6
  <2> QED
    BY <2>1, <2>2, <2>3, <2>4, TaskGoes DEF MediaRanges
<1>3. CASE Record(h)
  <2>0. PICK r : r = [task[h] EXCEPT !.step = "mark"]
    OBVIOUS
  <2>1. r \in TaskRecs /\ r.step = "mark" /\ r.file = task[h].file
    BY <1>0, <2>0, Steps, TaskRecOf
  <2>2. /\ task' = [task EXCEPT ![h] = r] /\ UNCHANGED <<object, uploads, landed, mishap>>
        /\ task[h].step = "record" /\ item' = [item EXCEPT !.media = task[h].file]
    BY <1>3, <2>0 DEF Record, TaskAt, TaskTo
  <2>3. /\ item' \in Items /\ item'.media = task[h].file /\ item'.transcoded = item.transcoded
        /\ item'.thumb = item.thumb /\ item'.deleted = item.deleted
    BY <1>0, <2>2 DEF Items
  <2>4. ASSUME ~Excused'
        PROVE  (\A g \in MediaTasks : Busy(g) => g = h) /\ Fits(r)' /\ Whole(r)'
    <3>1. (\A g \in MediaTasks : Busy(g) => g = h) /\ Fits(task[h]) /\ Whole(task[h])
      BY <2>2, <2>3, <2>4, RunsAlone DEF Excused, Busy
    <3>2. Fits(r)'
      BY <2>1 DEF Fits
    <3>3. object[<<"media", task[h].file>>] # 0
      BY <2>2, <3>1 DEF Fits
    <3>4. Whole(r)'
      BY <2>1, <2>2, <2>3, <3>1, <3>3 DEF Whole, Lacks
    <3> QED
      BY <3>1, <3>2, <3>4
  <2> QED
    BY <2>1, <2>2, <2>3, <2>4, TaskGoes DEF MediaRanges
<1>4. CASE Mark(h) \/ SendProbe(h)
  <2>1. PICK r \in TaskRecs : task' = [task EXCEPT ![h] = r] /\ r.step \in {"send", "idle"}
    <3>1. [task[h] EXCEPT !.step = "send"] \in TaskRecs /\ [task[h] EXCEPT !.step = "send"].step = "send"
      BY <1>0, Steps, TaskRecOf
    <3> QED
      BY <1>4, <3>1, NoTaskIs DEF Mark, SendProbe, TaskTo, TaskEnds
  <2>2. /\ UNCHANGED <<object, uploads, landed, mishap>> /\ task[h].step \in {"mark", "send"}
        /\ item' = item \/ item' = [item EXCEPT !.status = "processing"]
    BY <1>4 DEF Mark, SendProbe, TaskAt, TaskTo, TaskEnds, SetStatus
  <2>3. item' \in Items /\ UNCHANGED <<item.media, item.transcoded, item.thumb, item.deleted>>
    BY <1>0, <2>2 DEF Items
  <2>4. ASSUME ~Excused'
        PROVE  (\A g \in MediaTasks : Busy(g) => g = h) /\ Fits(r)' /\ Whole(r)'
    <3>1. (\A g \in MediaTasks : Busy(g) => g = h) /\ Whole(task[h])
      BY <2>2, <2>3, <2>4, RunsAlone DEF Excused, Busy
    <3>2. Fits(r)'
      BY <2>1 DEF Fits
    <3>3. Lacks(task[h]) = {}
      BY <2>2 DEF Lacks
    <3>4. Whole(r)'
      BY <2>2, <2>3, <3>1, <3>3 DEF Whole
    <3> QED
      BY <3>1, <3>2, <3>4
  <2> QED
    BY <2>1, <2>2, <2>3, <2>4, TaskGoes DEF MediaRanges
<1>5. CASE DropTooBig(h)
  <2>1. /\ task' = [task EXCEPT ![h] = NoTask] /\ UNCHANGED <<uploads, landed, item>>
        /\ task[h].step = "tooBig" /\ mishap \subseteq mishap'
        /\ object' = [object EXCEPT ![<<"media", task[h].file>>] = 0]
        /\ item.media = task[h].file => Excused'
    BY <1>5 DEF DropTooBig, TaskAt, Excused
  <2>2. object' \in [Objects -> Nat]
    BY <2>1 DEF MediaRanges
  <2>3. ASSUME ~Excused'
        PROVE  (\A g \in MediaTasks : Busy(g) => g = h) /\ Whole(NoTask)'
    <3>1. (\A g \in MediaTasks : Busy(g) => g = h) /\ Fits(task[h]) /\ Whole(task[h])
      BY <2>1, <2>3, RunsAlone DEF Excused, Busy
    <3>2. \A o \in Objects : o = <<"media", task[h].file>> \/ object'[o] = object[o]
      BY <2>1 DEF MediaRanges
    <3>3. /\ item.media # task[h].file
          /\ \A f \in Files : /\ <<"transcoded", f>> # <<"media", task[h].file>>
                             /\ <<"thumb", f>> # <<"media", task[h].file>>
      BY <2>1, <2>3
    <3>4. /\ item.media \in Files \cup {None} /\ item.transcoded \in Files \cup {None}
          /\ Lacks(task[h]) = {}
      BY <1>0, <2>1 DEF Items, Lacks
    <3>5. \A f \in Files : /\ f # task[h].file => object'[<<"media", f>>] = object[<<"media", f>>]
                         /\ object'[<<"transcoded", f>>] = object[<<"transcoded", f>>]
                         /\ object'[<<"thumb", f>>] = object[<<"thumb", f>>]
      BY <3>2, <3>3, Steps
    <3>6. Whole(NoTask)'
      BY <2>1, <3>1, <3>3, <3>4, <3>5 DEF Whole
    <3> QED
      BY <3>1, <3>6
  <2> QED
    BY <1>0, <2>1, <2>2, <2>3, NoTaskIs, TaskGoes DEF MediaRanges
<1> QED
  BY <1>1, <1>2, <1>3, <1>4, <1>5 DEF CompleteStep

\* A task that took nothing goes on, and leaves the row's keys alone and the objects there.
LEMMA WorksOn ==
  ASSUME MediaRanges, WholeInv, NEW h \in MediaTasks, Busy(h), Lacks(task[h]) = {},
         NEW r \in TaskRecs, task' = [task EXCEPT ![h] = r],
         object' \in [Objects -> Nat], \A o \in Objects : object[o] # 0 => object'[o] # 0,
         item' \in Items, UNCHANGED <<uploads, landed, mishap>>,
         UNCHANGED <<item.media, item.transcoded, item.thumb, item.deleted>>,
         Fits(task[h]) => r.step = "idle" \/ Fits(r)'
  PROVE  MediaRanges' /\ WholeInv'
<1>1. ASSUME ~Excused'
      PROVE  /\ \A g \in MediaTasks : Busy(g) => g = h
             /\ r.step = "idle" \/ Fits(r)'
             /\ Whole(r)'
  <2>1. (\A g \in MediaTasks : Busy(g) => g = h) /\ Fits(task[h]) /\ Whole(task[h])
    BY <1>1, RunsAlone DEF Excused
  <2>2. item.media \in Files \cup {None} /\ item.transcoded \in Files \cup {None}
    BY DEF MediaRanges, Items
  <2>3. Whole(r)'
    BY <2>1, <2>2, Steps DEF Whole
  <2> QED
    BY <2>1, <2>3
<1> QED
  BY <1>1, TaskGoes DEF MediaRanges

\* One step of a job: it reads, and gives up or saves what it made.
LEMMA JobStepServed ==
  ASSUME MediaAssumption, MediaRanges, WholeInv, NEW h \in MediaTasks, JobStep(h)
  PROVE  MediaRanges' /\ WholeInv'
<1>0. task[h] \in TaskRecs /\ item \in Items /\ object \in [Objects -> Nat]
      /\ uploads' = uploads /\ landed' = landed /\ mishap' = mishap
      /\ Busy(h) /\ Lacks(task[h]) = {} /\ task[h].from \in Nat /\ task[h].file \in Files \cup {None}
  <2>1. task[h] \in TaskRecs /\ item \in Items /\ object \in [Objects -> Nat]
    BY DEF MediaRanges
  <2>2. task[h].step \in Jobs
    BY DEF JobStep, ReadMedia, ProbeChain, ProbeThumb, TranscodeSave, ThumbSave, SaveDerived,
           TranscodeRow, ThumbRow, TaskAt, Jobs
  <2>3. uploads' = uploads /\ landed' = landed /\ mishap' = mishap
    BY DEF JobStep, ReadMedia, ProbeChain, ProbeThumb, TranscodeSave, ThumbSave, SaveDerived,
           TranscodeRow, ThumbRow, TaskTo, TaskEnds, Fails
  <2>4. Busy(h) /\ Lacks(task[h]) = {}
    BY <2>2 DEF Busy, Lacks, Jobs
  <2>5. task[h].from \in Nat /\ task[h].file \in Files \cup {None}
    BY <2>1 DEF TaskRecs, TaskRecords
  <2> QED
    BY <2>1, <2>3, <2>4, <2>5
<1>1. ASSUME ReadMedia(h), Fails(h) PROVE MediaRanges' /\ WholeInv'
  <2>1. task' = [task EXCEPT ![h] = NoTask] /\ object' = object
        /\ (item' = item \/ item' = [item EXCEPT !.status = "failed"])
    BY <1>1 DEF Fails, TaskEnds, SetStatus
  <2>2. item' \in Items /\ UNCHANGED <<item.media, item.transcoded, item.thumb, item.deleted>>
    BY <1>0, <2>1 DEF Items
  <2> QED
    BY <1>0, <2>1, <2>2, NoTaskIs, WorksOn
<1>2. ASSUME ReadMedia(h), ~Fails(h) PROVE MediaRanges' /\ WholeInv'
  <2>1. PICK v : v = object[<<"media", task[h].file>>]
    OBVIOUS
  <2>2. /\ v # 0 /\ UNCHANGED <<object, item>>
        /\ task' = [task EXCEPT ![h].from = v, ![h].step =
                      CASE @ = "probeRead"     -> "probeChain"
                        [] @ = "transcodeRead" -> "transcodeSave"
                        [] @ = "thumbRead"     -> "thumbSave"]
        /\ task[h].step \in {"probeRead", "transcodeRead", "thumbRead"}
    BY <1>2, <2>1 DEF ReadMedia
  <2>3. PICK s : s = CASE task[h].step = "probeRead"     -> "probeChain"
                       [] task[h].step = "transcodeRead" -> "transcodeSave"
                       [] task[h].step = "thumbRead"     -> "thumbSave"
    OBVIOUS
  <2>4. /\ s \in {"probeChain", "transcodeSave", "thumbSave"}
        /\ s = "probeChain" => task[h].step = "probeRead"
        /\ s = "transcodeSave" => task[h].step = "transcodeRead"
        /\ s = "thumbSave" => task[h].step = "thumbRead"
    BY <2>2, <2>3
  <2>5. PICK r : r = [task[h] EXCEPT !.from = v, !.step = s]
    OBVIOUS
  <2>6. task' = [task EXCEPT ![h] = r]
    BY <2>2, <2>3, <2>5 DEF MediaRanges, TaskRecs, TaskRecords
  <2>7. r \in TaskRecs /\ r.from = v /\ r.step = s /\ r.file = task[h].file
    <3>1. v \in Nat
      <4>1. task[h].file \in Files
        BY <1>0, <2>2, Steps DEF TaskRecs
      <4> QED
        BY <1>0, <2>1, <4>1, Steps
    <3> QED
      BY <1>0, <2>4, <2>5, <3>1, Steps DEF TaskRecs, TaskRecords
  <2>8. Fits(task[h]) => Fits(r)'
    BY <2>2, <2>4, <2>7 DEF Fits
  <2> QED
    BY <1>0, <2>2, <2>6, <2>7, <2>8, WorksOn
<1>3. ASSUME ProbeChain(h) \/ ProbeThumb(h) PROVE MediaRanges' /\ WholeInv'
  <2>1. /\ object' = object
        /\ item' = item \/ item' = [item EXCEPT !.status = "ready"]
    BY <1>3 DEF ProbeChain, ProbeThumb, SetStatus
  <2>2. item' \in Items /\ UNCHANGED <<item.media, item.transcoded, item.thumb, item.deleted>>
    BY <1>0, <2>1 DEF Items
  <2>3. PICK r \in TaskRecs : task' = [task EXCEPT ![h] = r] /\ r.step \in {"probeThumb", "idle"}
    <3>1. /\ [task[h] EXCEPT !.step = "probeThumb"] \in TaskRecs
          /\ [task[h] EXCEPT !.step = "probeThumb"].step = "probeThumb"
      BY <1>0, Steps, TaskRecOf
    <3> QED
      BY <1>3, <3>1, NoTaskIs DEF ProbeChain, ProbeThumb, TaskTo, TaskEnds
  <2>4. r.step = "idle" \/ Fits(r)'
    BY <2>3 DEF Fits
  <2> QED
    BY <1>0, <2>1, <2>2, <2>3, <2>4, WorksOn
<1>4. ASSUME TranscodeSave(h) \/ ThumbSave(h) PROVE MediaRanges' /\ WholeInv'
  <2>1. PICK k \in {"transcoded", "thumb"} :
          /\ k = "transcoded" => task[h].step = "transcodeSave"
          /\ k = "thumb" => task[h].step = "thumbSave"
          /\ object' = [object EXCEPT ![<<k, task[h].file>>] = task[h].from]
          /\ TaskTo(h, IF k = "thumb" THEN "thumbRow" ELSE "transcodeRow") /\ item' = item
    BY <1>4 DEF TranscodeSave, ThumbSave, SaveDerived, TaskAt
  <2>2. PICK s \in {"thumbRow", "transcodeRow"} :
          TaskTo(h, s) /\ (s = "thumbRow" <=> k = "thumb")
    BY <2>1
  <2>3. PICK r : r = [task[h] EXCEPT !.step = s]
    OBVIOUS
  <2>4. /\ r \in TaskRecs /\ r.step = s /\ r.file = task[h].file
        /\ task' = [task EXCEPT ![h] = r]
    BY <1>0, <2>2, <2>3, Steps, TaskRecOf DEF TaskTo
  <2>5. object' \in [Objects -> Nat]
    BY <1>0, <2>1
  <2>6. Fits(task[h]) => task[h].file \in Files /\ task[h].from # 0
    BY <2>1 DEF Fits
  <2>7. CASE Fits(task[h])
    <3>1. <<k, task[h].file>> \in Objects
      BY <2>6, <2>7, <2>1, Steps
    <3>2. object'[<<k, task[h].file>>] # 0
      BY <1>0, <2>1, <2>6, <2>7, <3>1
    <3>3. \A o \in Objects : object[o] # 0 => object'[o] # 0
      BY <1>0, <2>1, <2>6, <2>7, <3>1
    <3>4. Fits(r)'
      <4>1. s = "thumbRow" => item'.thumb \notin Files
        BY <2>1, <2>2, <2>7 DEF Fits
      <4>2. s = "thumbRow" => object'[<<"thumb", task[h].file>>] # 0
        BY <2>2, <3>2
      <4>3. s = "transcodeRow" => object'[<<"transcoded", task[h].file>>] # 0
        BY <2>1, <2>2, <3>2
      <4> QED
        BY <2>2, <2>4, <2>6, <2>7, <4>1, <4>2, <4>3 DEF Fits
    <3> QED
      BY <1>0, <2>1, <2>4, <2>5, <3>3, <3>4, WorksOn
  <2>8. CASE ~Fits(task[h])
    <3>1. Excused
      BY <1>0, <2>8, RunsAlone
    <3>2. Excused'
      BY <1>0, <2>1, <3>1 DEF Excused
    <3> QED
      BY <1>0, <2>1, <2>4, <2>5, <3>2, TaskGoes DEF MediaRanges
  <2> QED
    BY <2>7, <2>8
<1>5. ASSUME TranscodeRow(h) \/ ThumbRow(h) PROVE MediaRanges' /\ WholeInv'
  <2>1. /\ task' = [task EXCEPT ![h] = NoTask] /\ object' = object
        /\ \/ /\ task[h].step = "transcodeRow"
              /\ item' = [item EXCEPT !.transcoded = task[h].file, !.status = "ready"]
           \/ /\ task[h].step = "thumbRow"
              /\ item' = [item EXCEPT !.thumb = task[h].file]
    BY <1>5 DEF TranscodeRow, ThumbRow, TaskAt, TaskEnds
  <2>2. item' \in Items /\ item'.media = item.media /\ item'.deleted = item.deleted
        /\ \/ /\ task[h].step = "transcodeRow"
              /\ item'.transcoded = task[h].file /\ item'.thumb = item.thumb
           \/ /\ task[h].step = "thumbRow"
              /\ item'.transcoded = item.transcoded /\ item'.thumb = task[h].file
    <3>1. CASE item' = [item EXCEPT !.transcoded = task[h].file, !.status = "ready"]
                 /\ task[h].step = "transcodeRow"
      BY <1>0, <3>1 DEF Items
    <3>2. CASE item' = [item EXCEPT !.thumb = task[h].file] /\ task[h].step = "thumbRow"
      BY <1>0, <3>2 DEF Items
    <3> QED
      BY <2>1, <3>1, <3>2
  <2>3. ASSUME ~Excused'
        PROVE  (\A g \in MediaTasks : Busy(g) => g = h) /\ Whole(NoTask)'
    <3>1. (\A g \in MediaTasks : Busy(g) => g = h) /\ Fits(task[h]) /\ Whole(task[h])
      BY <1>0, <2>2, <2>3, RunsAlone DEF Excused
    <3>2. /\ task[h].step = "transcodeRow" => object[<<"transcoded", task[h].file>>] # 0
          /\ task[h].step = "thumbRow" => object[<<"thumb", task[h].file>>] # 0
      BY <3>1 DEF Fits
    <3>3. Whole(NoTask)'
      BY <1>0, <2>1, <2>2, <3>1, <3>2 DEF Whole
    <3> QED
      BY <3>1, <3>3
  <2> QED
    BY <1>0, <2>1, <2>2, <2>3, NoTaskIs, TaskGoes DEF MediaRanges
<1> QED
  BY <1>1, <1>2, <1>3, <1>4, <1>5 DEF JobStep

\* A task begins: no other runs, so the row's keys lead to objects.
LEMMA Begins ==
  ASSUME MediaRanges, WholeInv, NEW h \in MediaTasks, task[h] = NoTask,
         NEW r \in TaskRecs, task' = [task EXCEPT ![h] = r],
         mishap \subseteq mishap', Met(h, r.step) \subseteq mishap',
         item.deleted => item'.deleted,
         object' \in [Objects -> Nat], uploads' \in Nat, landed' \subseteq Files, item' \in Items,
         ~Excused' /\ Whole(NoTask) => Fits(r)' /\ Whole(r)'
  PROVE  MediaRanges' /\ WholeInv'
<1>1. ASSUME ~Excused'
      PROVE  /\ \A g \in MediaTasks : Busy(g) => g = h
             /\ r.step = "idle" \/ Fits(r)'
             /\ Whole(r)'
  <2>1. ~Excused
    BY <1>1, StillExcused
  <2>2. (\A g \in MediaTasks : ~Busy(g)) /\ Whole(NoTask)
    BY <1>1, <2>1, BeginsAlone
  <2> QED
    BY <1>1, <2>2
<1> QED
  BY <1>1, TaskGoes

LEMMA CompleteServed ==
  ASSUME MediaAssumption, MediaRanges, WholeInv, NEW h \in MediaTasks, NEW f \in Files,
         Complete(h, f)
  PROVE  MediaRanges' /\ WholeInv'
<1>1. /\ UNCHANGED <<object, uploads, item>> /\ landed' \subseteq Files /\ task[h] = NoTask
      /\ item \in Items /\ object \in [Objects -> Nat] /\ uploads \in Nat
  BY DEF Complete, MediaRanges
<1>2. CASE UNCHANGED <<task, mishap>>
  BY <1>1, <1>2 DEF MediaRanges, WholeInv, Excused, Busy, Fits, Whole
<1>3. CASE ~UNCHANGED <<task, mishap>>
  <2>1. PICK s \in {"tooBig", "findOld"} :
            /\ object[<<"media", f>>] # 0
            /\ task' = [task EXCEPT ![h] = [NoTask EXCEPT !.step = s, !.file = f]]
            /\ mishap \subseteq mishap' /\ Met(h, s) \subseteq mishap'
    BY <1>3 DEF Complete
  <2>2. PICK r : r = [NoTask EXCEPT !.step = s, !.file = f]
    OBVIOUS
  <2>3. r \in TaskRecs /\ r.step = s /\ r.file = f
    BY <2>1, <2>2, Steps DEF NoTask, TaskRecs, TaskRecords
  <2>4. Whole(NoTask) => Fits(r)' /\ Whole(r)'
    <3>1. Fits(r)'
      BY <1>1, <2>1, <2>3 DEF Fits
    <3>2. Whole(NoTask) => Whole(r)'
      BY <1>1, <2>1, <2>3, NoTaskIs DEF Whole, Lacks
    <3> QED
      BY <3>1, <3>2
  <2> QED
    BY <1>1, <2>1, <2>2, <2>3, <2>4, Begins
<1> QED
  BY <1>2, <1>3

LEMMA TakeJobServed ==
  ASSUME MediaAssumption, MediaRanges, WholeInv, NEW h \in MediaTasks, TakeJob(h)
  PROVE  MediaRanges' /\ WholeInv'
<1>1. PICK q \in Queues, s \in Reads : Take(h, q, s) /\ (s = "thumbRead" => q = "thumbnail")
  BY DEF TakeJob, Queues, Reads
<1>2. /\ UNCHANGED <<object, uploads, landed, item>>
      /\ item \in Items /\ object \in [Objects -> Nat] /\ uploads \in Nat /\ landed \subseteq Files
  BY <1>1 DEF Take, MediaRanges
<1>3. CASE item.media = None \/ (q = "thumbnail" /\ item.thumb # None)
  <2>1. UNCHANGED <<task, mishap>>
    BY <1>1, <1>3 DEF Take
  <2> QED
    BY <1>2, <2>1 DEF MediaRanges, WholeInv, Excused, Busy, Fits, Whole
<1>4. CASE ~(item.media = None \/ (q = "thumbnail" /\ item.thumb # None))
  <2>1. PICK r : r = [NoTask EXCEPT !.step = s, !.file = item.media, !.old = item.thumb]
    OBVIOUS
  <2>2. item.media \in Files /\ item.thumb \in Files \cup {None, "custom"}
    BY <1>2, <1>4 DEF Items
  <2>3. r \in TaskRecs /\ r.step = s /\ r.file = item.media
    BY <2>1, <2>2, <1>1, Steps DEF NoTask, TaskRecs, TaskRecords
  <2>4. task[h] = NoTask /\ task' = [task EXCEPT ![h] = r] /\ mishap' = mishap \cup Met(h, s)
    BY <1>1, <1>4, <2>1, <2>3 DEF Take, BeginTask
  <2>5. s = "thumbRead" => item.thumb = None
    BY <1>1, <1>4
  <2>6. None \notin Files
    BY DEF MediaAssumption
  <2>7. Whole(NoTask) => Fits(r)' /\ Whole(r)'
    <3>1. Fits(r)'
      BY <1>1, <1>2, <2>2, <2>3, <2>5, <2>6, Steps DEF Fits
    <3>2. Whole(NoTask) => Whole(r)'
      <4>1. Lacks(r) = {}
        BY <1>1, <2>3, Steps DEF Lacks
      <4> QED
        BY <1>2, <4>1, NoTaskIs DEF Whole
    <3> QED
      BY <3>1, <3>2
  <2> QED
    BY <1>2, <2>3, <2>4, <2>7, Begins
<1> QED
  BY <1>3, <1>4

\* A PATCH or DELETE begins to sweep the objects the row names.
LEMMA SweepServed ==
  ASSUME MediaAssumption, MediaRanges, WholeInv, NEW h \in MediaTasks,
         ClearMedia(h) \/ ClearThumbnail(h) \/ Delete(h)
  PROVE  MediaRanges' /\ WholeInv'
<1>1. /\ UNCHANGED <<object, uploads, landed>> /\ ~item.deleted
      /\ item \in Items /\ object \in [Objects -> Nat] /\ uploads \in Nat /\ landed \subseteq Files
  BY DEF ClearMedia, ClearThumbnail, Delete, LoadItem, MediaRanges
<1>2. /\ ThumbObject(item) \subseteq {"thumb"} \X Files /\ ThumbObject(item) \subseteq Objects
      /\ MediaObject(item) \subseteq Objects /\ TranscodedObject(item) \subseteq Objects
  <2>1. item.media \in Files \cup {None} /\ item.transcoded \in Files \cup {None}
    BY <1>1 DEF Items
  <2>2. \A x \in Files : <<"thumb", x>> \in {"thumb"} \X Files
    OBVIOUS
  <2>3. ThumbObject(item) \subseteq {"thumb"} \X Files
    <3>1. CASE item.thumb \in Files
      BY <3>1, <2>2 DEF ThumbObject
    <3>2. CASE item.thumb \notin Files
      BY <3>2 DEF ThumbObject
    <3> QED
      BY <3>1, <3>2
  <2>4. ThumbObject(item) \subseteq Objects
    BY <2>3 DEF Objects
  <2>5. MediaObject(item) \subseteq Objects
    BY <2>1, Steps DEF MediaObject
  <2>6. TranscodedObject(item) \subseteq Objects
    BY <2>1, Steps DEF TranscodedObject
  <2> QED
    BY <2>3, <2>4, <2>5, <2>6
<1>3. PICK old \in {None, "media", "thumb"}, sw \in SUBSET Objects :
        /\ LoadItem(h, [NoTask EXCEPT !.step = "sweep", !.old = old, !.sweep = sw])
        /\ old = "thumb" => sw \subseteq {"thumb"} \X Files
        /\ IF old = None THEN item' = [item EXCEPT !.deleted = TRUE] ELSE item' = item
  <2>1. None \notin {"media", "thumb"}
    BY DEF MediaAssumption
  <2>2. PICK all : all = MediaObject(item) \cup ThumbObject(item) \cup TranscodedObject(item)
    OBVIOUS
  <2>3. PICK own : own = MediaObject(item) \cup ThumbObject(item)
    OBVIOUS
  <2>4. PICK thumb : thumb = ThumbObject(item)
    OBVIOUS
  <2>5. /\ all \in SUBSET Objects /\ own \in SUBSET Objects /\ thumb \in SUBSET Objects
        /\ thumb \subseteq {"thumb"} \X Files
    BY <1>2, <2>2, <2>3, <2>4
  <2>6. \/ /\ LoadItem(h, [NoTask EXCEPT !.step = "sweep", !.old = "media", !.sweep = all])
           /\ item' = item
        \/ /\ LoadItem(h, [NoTask EXCEPT !.step = "sweep", !.old = "thumb", !.sweep = thumb])
           /\ item' = item
        \/ /\ LoadItem(h, [NoTask EXCEPT !.step = "sweep", !.old = None, !.sweep = own])
           /\ item' = [item EXCEPT !.deleted = TRUE]
    BY <2>2, <2>3, <2>4 DEF ClearMedia, ClearThumbnail, Delete
  <2> QED
    BY <2>1, <2>5, <2>6
<1>4. PICK r : r = [NoTask EXCEPT !.step = "sweep", !.old = old, !.sweep = sw]
  OBVIOUS
<1>5. r \in TaskRecs /\ r.step = "sweep" /\ r.old = old /\ r.sweep = sw
  BY <1>4, Steps DEF NoTask, TaskRecs, TaskRecords
<1>6. task[h] = NoTask /\ task' = [task EXCEPT ![h] = r] /\ mishap' = mishap \cup Met(h, "sweep")
  BY <1>3, <1>4, <1>5 DEF LoadItem, BeginTask
<1>7. /\ item' \in Items /\ UNCHANGED <<item.media, item.transcoded, item.thumb>>
      /\ old = None => item'.deleted
  BY <1>1, <1>3 DEF Items
<1>8. ASSUME ~Excused', Whole(NoTask) PROVE Fits(r)' /\ Whole(r)'
  <2>1. old \in {"media", "thumb"}
    BY <1>7, <1>8 DEF Excused
  <2>2. Fits(r)'
    BY <1>3, <1>5, <2>1 DEF Fits
  <2>3. Whole(r)'
    BY <1>1, <1>7, <1>8, NoTaskIs DEF Whole
  <2> QED
    BY <2>2, <2>3
<1> QED
  BY <1>1, <1>5, <1>6, <1>7, <1>8, Begins

\* A replacing upload deletes the old file as it begins.
LEMMA ReplaceServed ==
  ASSUME MediaAssumption, MediaRanges, WholeInv, NEW h \in MediaTasks, NEW f \in Files,
         Replace(h, f)
  PROVE  MediaRanges' /\ WholeInv'
<1>1. /\ UNCHANGED <<uploads, landed, item>>
      /\ item \in Items /\ object \in [Objects -> Nat] /\ uploads \in Nat /\ landed \subseteq Files
      /\ object' = IF item.media = None THEN object
                   ELSE [object EXCEPT ![<<"media", item.media>>] = 0]
  BY DEF Replace, MediaRanges
<1>2. PICK r : r = [NoTask EXCEPT !.step = "replace", !.file = f, !.old = item.media]
  OBVIOUS
<1>3. item.media \in Files \cup {None} /\ item.transcoded \in Files \cup {None}
  BY <1>1 DEF Items
<1>4. r \in TaskRecs /\ r.step = "replace" /\ r.file = f
  BY <1>2, <1>3, Steps DEF NoTask, TaskRecs, TaskRecords
<1>5. task[h] = NoTask /\ task' = [task EXCEPT ![h] = r] /\ mishap' = mishap \cup Met(h, "replace")
  BY <1>2, <1>4 DEF Replace, LoadItem, BeginTask
<1>6. object' \in [Objects -> Nat]
  BY <1>1
<1>7. \A o \in Objects : o = <<"media", item.media>> \/ object'[o] = object[o]
  BY <1>1
<1>8. Fits(r)'
  BY <1>4 DEF Fits
<1>9. \A x \in Files : /\ <<"transcoded", x>> # <<"media", item.media>>
                       /\ <<"thumb", x>> # <<"media", item.media>>
  OBVIOUS
<1>10. Whole(NoTask) => Whole(r)'
  BY <1>1, <1>3, <1>4, <1>7, <1>9, NoTaskIs, Steps DEF Whole, Lacks
<1> QED
  BY <1>1, <1>4, <1>5, <1>6, <1>8, <1>10, Begins

\* One step of a route: objects go, and the keys that named them follow.
LEMMA RouteStepServed ==
  ASSUME MediaAssumption, MediaRanges, WholeInv, NEW h \in MediaTasks, RouteStep(h)
  PROVE  MediaRanges' /\ WholeInv'
<1>0. /\ task[h] \in TaskRecs /\ item \in Items /\ object \in [Objects -> Nat]
      /\ uploads \in Nat /\ landed' = landed /\ landed \subseteq Files /\ Busy(h)
      /\ task[h].sweep \subseteq Objects /\ task[h].file \in Files \cup {None}
      /\ item.media \in Files \cup {None} /\ item.transcoded \in Files \cup {None}
      /\ None \notin Files /\ None \notin {"media", "thumb"}
  <2>1. task[h] \in TaskRecs /\ item \in Items /\ object \in [Objects -> Nat] /\ uploads \in Nat
        /\ landed \subseteq Files
    BY DEF MediaRanges
  <2>2. landed' = landed
    BY DEF RouteStep, Sweep, ClearRow, ReplaceFile, ReplaceRow
  <2>3. Busy(h)
    BY DEF RouteStep, Sweep, ClearRow, ReplaceFile, ReplaceRow, TaskAt, Busy
  <2>4. task[h].sweep \subseteq Objects /\ task[h].file \in Files \cup {None}
    BY <2>1 DEF TaskRecs, TaskRecords
  <2>5. item.media \in Files \cup {None} /\ item.transcoded \in Files \cup {None}
    BY <2>1 DEF Items
  <2> QED
    BY <2>1, <2>2, <2>3, <2>4, <2>5 DEF MediaAssumption
<1>1. ASSUME NEW o \in task[h].sweep, Sweep(h), object' = [object EXCEPT ![o] = 0],
             task' = [task EXCEPT ![h].sweep = @ \ {o}]
      PROVE  MediaRanges' /\ WholeInv'
  <2>1. PICK sw : sw = task[h].sweep \ {o}
    OBVIOUS
  <2>2. PICK r : r = [task[h] EXCEPT !.sweep = sw]
    OBVIOUS
  <2>3. /\ r \in TaskRecs /\ r.step = task[h].step /\ r.old = task[h].old /\ r.sweep = sw
        /\ r.file = task[h].file
    BY <1>0, <2>1, <2>2 DEF TaskRecs, TaskRecords
  <2>4. /\ task' = [task EXCEPT ![h] = r] /\ task[h].step = "sweep"
        /\ UNCHANGED <<uploads, landed, item, mishap>>
    BY <1>1, <2>1, <2>2 DEF Sweep, TaskAt, MediaRanges
  <2>5. object' \in [Objects -> Nat] /\ \A x \in Objects : x = o \/ object'[x] = object[x]
    BY <1>0, <1>1
  <2>6. ASSUME ~Excused'
        PROVE  (\A g \in MediaTasks : Busy(g) => g = h) /\ Fits(r)' /\ Whole(r)'
    <3>1. (\A g \in MediaTasks : Busy(g) => g = h) /\ Fits(task[h]) /\ Whole(task[h])
      BY <1>0, <2>4, <2>6, RunsAlone DEF Excused
    <3>2. task[h].old \in {"media", "thumb"}
          /\ (task[h].old = "thumb" => task[h].sweep \subseteq {"thumb"} \X Files)
      BY <2>4, <3>1 DEF Fits
    <3>3. Fits(r)'
      BY <2>1, <2>3, <2>4, <3>2 DEF Fits
    <3>4. Whole(r)'
      <4>1. CASE task[h].old = "thumb"
        <5>1. o \in {"thumb"} \X Files
          BY <1>1, <3>2, <4>1
        <5>2. \A x \in Files : <<"media", x>> # o /\ <<"transcoded", x>> # o
          BY <5>1
        <5> QED
          BY <1>0, <2>3, <2>4, <2>5, <3>1, <4>1, <5>2, Steps DEF Whole, Lacks
      <4>2. CASE task[h].old # "thumb"
        BY <2>3, <2>4, <4>2 DEF Whole, Lacks
      <4> QED
        BY <4>1, <4>2
    <3> QED
      BY <3>1, <3>3, <3>4
  <2> QED
    BY <1>0, <2>3, <2>4, <2>5, <2>6, TaskGoes
<1>2. ASSUME Sweep(h), task[h].sweep = {}, UNCHANGED object,
             task' = [task EXCEPT ![h] = IF @.old = None THEN NoTask
                                         ELSE [@ EXCEPT !.step = "clearRow"]]
      PROVE  MediaRanges' /\ WholeInv'
  <2>1. PICK r : r = IF task[h].old = None THEN NoTask ELSE [task[h] EXCEPT !.step = "clearRow"]
    OBVIOUS
  <2>2. /\ r \in TaskRecs
        /\ task[h].old # None => r.step = "clearRow" /\ r.old = task[h].old
    BY <1>0, <2>1, NoTaskIs, TaskRecOf, Steps
  <2>3. /\ task' = [task EXCEPT ![h] = r] /\ task[h].step = "sweep"
        /\ UNCHANGED <<uploads, landed, item, mishap>>
    BY <1>2, <2>1 DEF Sweep, TaskAt, MediaRanges
  <2>4. ASSUME ~Excused'
        PROVE  (\A g \in MediaTasks : Busy(g) => g = h) /\ Fits(r)' /\ Whole(r)'
    <3>1. (\A g \in MediaTasks : Busy(g) => g = h) /\ Fits(task[h]) /\ Whole(task[h])
      BY <1>0, <2>3, <2>4, RunsAlone DEF Excused
    <3>2. task[h].old \in {"media", "thumb"}
      BY <2>3, <3>1 DEF Fits
    <3>3. r.step = "clearRow" /\ r.old = task[h].old
      BY <1>0, <2>2, <3>2
    <3>4. Fits(r)'
      BY <3>2, <3>3 DEF Fits
    <3>5. Lacks(r) = Lacks(task[h])
      BY <2>3, <3>3 DEF Lacks
    <3>6. Whole(r)'
      BY <1>2, <2>3, <3>1, <3>5 DEF Whole
    <3> QED
      BY <3>1, <3>4, <3>6
  <2> QED
    BY <1>0, <1>2, <2>2, <2>3, <2>4, TaskGoes
<1>3. ASSUME ClearRow(h) PROVE MediaRanges' /\ WholeInv'
  <2>1. /\ task' = [task EXCEPT ![h] = NoTask] /\ task[h].step = "clearRow"
        /\ UNCHANGED <<object, uploads, mishap>>
        /\ item' = IF task[h].old = "thumb" THEN [item EXCEPT !.thumb = None]
                   ELSE [item EXCEPT !.media = None, !.thumb = None,
                                     !.transcoded = None, !.status = "none"]
    BY <1>3 DEF ClearRow, TaskAt, TaskEnds
  <2>2. /\ item' \in Items /\ item'.deleted = item.deleted /\ item'.thumb = None
        /\ IF task[h].old = "thumb"
           THEN item'.media = item.media /\ item'.transcoded = item.transcoded
           ELSE item'.media = None /\ item'.transcoded = None
    BY <1>0, <2>1 DEF Items
  <2>3. ASSUME ~Excused'
        PROVE  (\A g \in MediaTasks : Busy(g) => g = h) /\ Whole(NoTask)'
    <3>1. (\A g \in MediaTasks : Busy(g) => g = h) /\ Whole(task[h])
      BY <1>0, <2>1, <2>2, <2>3, RunsAlone DEF Excused
    <3>2. Whole(NoTask)'
      BY <1>0, <2>1, <2>2, <3>1 DEF Whole, Lacks
    <3> QED
      BY <3>1, <3>2
  <2> QED
    BY <1>0, <2>1, <2>2, <2>3, NoTaskIs, TaskGoes
<1>4. ASSUME ReplaceFile(h), uploads' = uploads + 1, TaskTo(h, "replaceRow"),
             object' = [object EXCEPT ![<<"media", task[h].file>>] = uploads + 1]
      PROVE  MediaRanges' /\ WholeInv'
  <2>1. PICK r : r = [task[h] EXCEPT !.step = "replaceRow"]
    OBVIOUS
  <2>2. r \in TaskRecs /\ r.step = "replaceRow" /\ r.file = task[h].file
    BY <1>0, <2>1, TaskRecOf, Steps
  <2>3. /\ task' = [task EXCEPT ![h] = r] /\ task[h].step = "replace"
        /\ UNCHANGED <<landed, item, mishap>>
    BY <1>4, <2>1 DEF ReplaceFile, TaskAt, TaskTo
  <2>4. /\ uploads' \in Nat /\ uploads + 1 \in Nat /\ uploads + 1 # 0
    BY <1>0, <1>4
  <2>5. /\ object' \in [Objects -> Nat]
        /\ \A x \in Objects : object[x] # 0 => object'[x] # 0
        /\ <<"media", task[h].file>> \in Objects => object'[<<"media", task[h].file>>] # 0
    BY <1>0, <1>4, <2>4
  <2>6. ASSUME ~Excused'
        PROVE  (\A g \in MediaTasks : Busy(g) => g = h) /\ Fits(r)' /\ Whole(r)'
    <3>1. (\A g \in MediaTasks : Busy(g) => g = h) /\ Fits(task[h]) /\ Whole(task[h])
      BY <1>0, <2>3, <2>6, RunsAlone DEF Excused
    <3>2. task[h].file \in Files
      BY <2>3, <3>1 DEF Fits
    <3>3. Fits(r)'
      BY <2>2, <2>5, <3>2, Steps DEF Fits
    <3>4. Lacks(r) = Lacks(task[h])
      BY <2>2, <2>3 DEF Lacks
    <3>5. Whole(r)'
      BY <1>0, <2>3, <2>5, <3>1, <3>4, Steps DEF Whole
    <3> QED
      BY <3>1, <3>3, <3>5
  <2> QED
    BY <1>0, <2>2, <2>3, <2>4, <2>5, <2>6, TaskGoes
<1>5. ASSUME ReplaceFile(h), task' = [task EXCEPT ![h] = NoTask],
             mishap' = mishap \cup {"unsaved"}, UNCHANGED <<object, uploads>>
      PROVE  MediaRanges' /\ WholeInv'
  <2>1. item' = item
    BY <1>5 DEF ReplaceFile
  <2>2. Excused'
    BY <1>5 DEF Excused
  <2> QED
    BY <1>0, <1>5, <2>1, <2>2, NoTaskIs, TaskGoes
<1>6. ASSUME ReplaceRow(h) PROVE MediaRanges' /\ WholeInv'
  <2>1. /\ task' = [task EXCEPT ![h] = NoTask] /\ task[h].step = "replaceRow"
        /\ UNCHANGED <<object, uploads, mishap>> /\ item' = [item EXCEPT !.media = task[h].file]
    BY <1>6 DEF ReplaceRow, TaskAt, TaskEnds
  <2>2. /\ item' \in Items /\ item'.deleted = item.deleted /\ item'.thumb = item.thumb
        /\ item'.media = task[h].file /\ item'.transcoded = item.transcoded
    BY <1>0, <2>1 DEF Items
  <2>3. ASSUME ~Excused'
        PROVE  (\A g \in MediaTasks : Busy(g) => g = h) /\ Whole(NoTask)'
    <3>1. (\A g \in MediaTasks : Busy(g) => g = h) /\ Fits(task[h]) /\ Whole(task[h])
      BY <1>0, <2>1, <2>2, <2>3, RunsAlone DEF Excused
    <3>2. object[<<"media", task[h].file>>] # 0
      BY <2>1, <3>1 DEF Fits
    <3>3. Whole(NoTask)'
      BY <1>0, <2>1, <2>2, <3>1, <3>2 DEF Whole, Lacks
    <3> QED
      BY <3>1, <3>3
  <2> QED
    BY <1>0, <2>1, <2>2, <2>3, NoTaskIs, TaskGoes
<1>7. CASE Sweep(h)
  BY <1>1, <1>2, <1>7 DEF Sweep
<1>8. CASE ReplaceFile(h)
  BY <1>4, <1>5, <1>8 DEF ReplaceFile
<1> QED
  BY <1>3, <1>6, <1>7, <1>8 DEF RouteStep

\* A file put into storage takes no other's place.
LEMMA PutServed ==
  ASSUME MediaAssumption, MediaRanges, WholeInv, NEW f \in Files, Put(f)
  PROVE  MediaRanges' /\ WholeInv'
<1>1. /\ UNCHANGED <<item, task, mishap>> /\ uploads' = uploads + 1 /\ uploads \in Nat
      /\ landed' = landed \cup {f} /\ object \in [Objects -> Nat]
      /\ object' = [object EXCEPT ![<<"media", f>>] = uploads + 1]
  BY DEF Put, MediaRanges
<1>2. uploads' \in Nat /\ uploads + 1 \in Nat /\ uploads + 1 # 0
  BY <1>1
<1>3. /\ object' \in [Objects -> Nat]
      /\ \A o \in Objects : object[o] # 0 => object'[o] # 0
  BY <1>1, <1>2
<1>4. MediaRanges'
  BY <1>1, <1>2, <1>3 DEF MediaRanges
<1>5. \A t : Fits(t) /\ Whole(t) => Fits(t)' /\ Whole(t)'
  <2>1. TAKE t
  <2>2. HAVE Fits(t) /\ Whole(t)
  <2> QED
    BY <1>1, <1>3, <2>2, ObjectsCome
<1>6. Fits(NoTask)
  BY NoTaskIs DEF Fits
<1>7. /\ \A g \in MediaTasks : Busy(g)' = Busy(g)
      /\ Excused' = Excused
  BY <1>1 DEF Busy, Excused
<1>8. ASSUME ~Excused PROVE WholeInv'
  <2>1. \A g \in MediaTasks : Busy(g) => Fits(task[g])' /\ Whole(task[g])'
    <3>1. SUFFICES ASSUME NEW g \in MediaTasks, Busy(g) PROVE Fits(task[g])' /\ Whole(task[g])'
      OBVIOUS
    <3>2. PICK t : t = task[g]
      OBVIOUS
    <3>3. Fits(t) /\ Whole(t)
      BY <1>8, <3>1, <3>2 DEF WholeInv
    <3>4. Fits(t)' /\ Whole(t)'
      BY <1>5, <3>3
    <3>5. task'[g] = t
      BY <1>1, <3>2
    <3> QED
      BY <3>4, <3>5
  <2>2. (\A g \in MediaTasks : ~Busy(g)) => Whole(NoTask)'
    BY <1>5, <1>6, <1>8 DEF WholeInv
  <2> QED
    BY <1>7, <1>8, <2>1, <2>2 DEF WholeInv
<1> QED
  BY <1>4, <1>7, <1>8 DEF WholeInv

\* A custom thumbnail is no one's object; the generated one goes.
LEMMA CustomServed ==
  ASSUME MediaAssumption, MediaRanges, WholeInv, CustomThumbnail
  PROVE  MediaRanges' /\ WholeInv'
<1>1. /\ UNCHANGED <<task, mishap, uploads, landed>> /\ item' = [item EXCEPT !.thumb = "custom"]
      /\ object \in [Objects -> Nat] /\ item \in Items
      /\ object' = IF item.thumb \in Files
                   THEN [object EXCEPT ![<<"thumb", item.thumb>>] = 0] ELSE object
  BY DEF CustomThumbnail, MediaRanges
<1>2. /\ item' \in Items /\ item'.media = item.media /\ item'.transcoded = item.transcoded
      /\ item'.thumb = "custom" /\ item'.deleted = item.deleted /\ "custom" \notin Files
      /\ item.media \in Files \cup {None} /\ item.transcoded \in Files \cup {None}
  BY <1>1 DEF Items, MediaAssumption
<1>3. object' \in [Objects -> Nat]
  BY <1>1
<1>4. MediaRanges'
  BY <1>1, <1>2, <1>3 DEF MediaRanges
<1>5. /\ \A x \in Files : /\ object'[<<"media", x>>] = object[<<"media", x>>]
                          /\ object'[<<"transcoded", x>>] = object[<<"transcoded", x>>]
      /\ item.thumb \notin Files => object' = object
  BY <1>1, Steps
<1>6. \A t : Fits(t) /\ Whole(t) => Fits(t)' /\ Whole(t)'
  <2>1. TAKE t
  <2>2. HAVE Fits(t) /\ Whole(t)
  <2>3. Whole(t)'
    BY <1>2, <1>5, <2>2 DEF Whole
  <2>4. Fits(t)'
    BY <1>2, <1>5, <2>2 DEF Fits
  <2> QED
    BY <2>3, <2>4
<1>7. Fits(NoTask)
  BY NoTaskIs DEF Fits
<1>8. /\ \A g \in MediaTasks : Busy(g)' = Busy(g)
      /\ Excused' = Excused
  BY <1>1, <1>2 DEF Busy, Excused
<1>9. ASSUME ~Excused PROVE WholeInv'
  <2>1. \A g \in MediaTasks : Busy(g) => Fits(task[g])' /\ Whole(task[g])'
    <3>1. SUFFICES ASSUME NEW g \in MediaTasks, Busy(g) PROVE Fits(task[g])' /\ Whole(task[g])'
      OBVIOUS
    <3>2. PICK t : t = task[g]
      OBVIOUS
    <3>3. Fits(t) /\ Whole(t)
      BY <1>9, <3>1, <3>2 DEF WholeInv
    <3>4. Fits(t)' /\ Whole(t)'
      BY <1>6, <3>3
    <3>5. task'[g] = t
      BY <1>1, <3>2
    <3> QED
      BY <3>4, <3>5
  <2>2. (\A g \in MediaTasks : ~Busy(g)) => Whole(NoTask)'
    BY <1>6, <1>7, <1>9 DEF WholeInv
  <2> QED
    BY <1>8, <1>9, <2>1, <2>2 DEF WholeInv
<1> QED
  BY <1>4, <1>8, <1>9 DEF WholeInv

LEMMA MediaCrashServed ==
  ASSUME MediaRanges, MediaCrash
  PROVE  MediaRanges' /\ WholeInv'
<1>1. UNCHANGED <<object, uploads, landed, item>> /\ task' = [g \in MediaTasks |-> NoTask]
      /\ "crash" \in mishap'
  BY DEF MediaCrash
<1>2. Excused'
  BY <1>1 DEF Excused
<1>3. task' \in [MediaTasks -> TaskRecs]
  BY <1>1, NoTaskIs
<1> QED
  BY <1>1, <1>2, <1>3 DEF MediaRanges, WholeInv

LEMMA MediaStepServed ==
  ASSUME MediaAssumption, MediaRanges, WholeInv, [MediaNext]_mediaVars
  PROVE  MediaRanges' /\ WholeInv'
<1>1. CASE UNCHANGED mediaVars
  BY <1>1 DEF mediaVars, MediaRanges, WholeInv, Excused, Busy, Fits, Whole
<1>2. CASE \E f \in Files : Put(f)
  BY <1>2, PutServed
<1>3. ASSUME NEW h \in MediaTasks, MediaRequest(h) \/ TakeJob(h) \/ MediaStep(h)
      PROVE  MediaRanges' /\ WholeInv'
  BY <1>3, CompleteServed, ReplaceServed, SweepServed, TakeJobServed, CompleteStepServed,
     JobStepServed, RouteStepServed DEF MediaRequest, MediaStep
<1>4. CASE CustomThumbnail
  BY <1>4, CustomServed
<1>5. CASE MediaCrash
  BY <1>5, MediaCrashServed
<1> QED
  BY <1>1, <1>2, <1>3, <1>4, <1>5 DEF MediaNext

LEMMA MediaStart ==
  ASSUME MediaAssumption, MediaInit
  PROVE  MediaRanges /\ WholeInv
<1>1. /\ task \in [MediaTasks -> TaskRecs] /\ \A g \in MediaTasks : task[g] = NoTask
      /\ object \in [Objects -> Nat] /\ uploads = 0 /\ landed = {} /\ item \in Items
      /\ item.media = None /\ item.transcoded = None /\ item.thumb = None
  BY NoTaskIs DEF MediaInit, Items
<1>2. MediaRanges
  BY <1>1 DEF MediaRanges
<1>3. Whole(NoTask)
  BY <1>1 DEF Whole, MediaAssumption
<1>4. \A g \in MediaTasks : ~Busy(g)
  BY <1>1, NoTaskIs DEF Busy
<1> QED
  BY <1>2, <1>3, <1>4 DEF WholeInv

\* What a viewer is served exists, for any number of calls and jobs one after another.
THEOREM ServedThere ==
  ASSUME MediaAssumption
  PROVE  MediaSpec => []ServedFileExists
<1>1. MediaInit => MediaRanges /\ WholeInv
  BY MediaStart
<1>2. (MediaRanges /\ WholeInv) /\ [MediaNext]_mediaVars => (MediaRanges /\ WholeInv)'
  BY MediaStepServed
<1>3. MediaRanges /\ WholeInv => ServedFileExists
  <2>1. SUFFICES ASSUME MediaRanges, WholeInv, MediaAtRest, mishap \subseteq {"retry"}, ~item.deleted
                 PROVE  /\ item.media # None => object[Served] # 0
                        /\ item.thumb \in Files => object[<<"thumb", item.thumb>>] # 0
    BY DEF ServedFileExists
  <2>2. ~Excused /\ \A g \in MediaTasks : ~Busy(g)
    BY <2>1, NoTaskIs DEF Excused, MediaAtRest, Busy
  <2>3. Whole(NoTask)
    BY <2>1, <2>2 DEF WholeInv
  <2> QED
    BY <2>3, NoTaskIs DEF Whole, Served
<1> QED
  BY <1>1, <1>2, <1>3, PTL DEF MediaSpec
=============================================================================
