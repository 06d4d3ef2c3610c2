------------------------------- MODULE Library -------------------------------
(***************************************************************************)
(* The image library: bytes kept once under the key of their hash, an      *)
(* inventory row for each, a registration for each creator that uploaded   *)
(* them, and grants to use another's. (services/library.ts,                *)
(* library.routes.ts, creator-media.routes.ts.)                            *)
(* An image stands for its bytes, its hash and its storage key.            *)
(***************************************************************************)
EXTENDS ApiCalls, Naturals

CONSTANTS
    LibraryCalls,   \* slots for calls in flight
    Artists,        \* creators
    Images,
    MaxWishes,      \* bound: calls made
    LibraryFaults   \* subset of {"storage", "crash"}

ASSUME LibraryAssumption ==
    /\ MaxWishes \in Nat
    /\ LibraryFaults \subseteq {"storage", "crash"}
    /\ {None, "legacy"} \cap Images = {}

Sharings == {"private", "requestable", "open"}

VARIABLES
    blobs,        \* images with a row in content_blobs
    objects,      \* images in the object store
    assets,       \* content_assets: one row at most for a creator and an image
    grants,       \* content_asset_grants: <<owner, image, grantee>>
    avatar,       \* the image a profile shows: a library image, "legacy" or None
    legacy,       \* creators whose per-surface object is still stored
    libraryCall,
    wishes        \* calls made so far

libraryVars == <<blobs, objects, assets, grants, avatar, legacy, libraryCall, wishes>>

Tables == <<blobs, objects, assets, grants, avatar, legacy>>

IdleWish == [step |-> "idle"]

Live(o, i) == assets[<<o, i>>] # None /\ assets[<<o, i>>].live

-----------------------------------------------------------------------------
(* Who may use an image *)

Granted(a, o, i) == <<o, i, a>> \in grants

\* aggregateUseStatus over the live registrations of the image, as a list shows it.
UseStatus(a, i) ==
    LET rows == {o \in Artists : Live(o, i)}
    IN  CASE a \in rows -> "own"
          [] a \notin rows /\ \E o \in rows : assets[<<o, i>>].sharing = "open" -> "open"
          [] a \notin rows /\ (\A o \in rows : assets[<<o, i>>].sharing # "open")
             /\ (\E o \in rows : assets[<<o, i>>].sharing = "requestable" /\ Granted(a, o, i))
             -> "granted"
          [] OTHER -> "requestable-needs-grant"

\* canUseAsset, as the press kit asks before it takes a key.
CanUse(a, i) ==
    \E o \in Artists :
        /\ Live(o, i)
        /\ \/ o = a
           \/ assets[<<o, i>>].sharing = "open"
           \/ assets[<<o, i>>].sharing = "requestable" /\ Granted(a, o, i)

-----------------------------------------------------------------------------
(* Uploads *)

Begin(c, r) ==
    /\ libraryCall[c].step = "idle"
    /\ wishes < MaxWishes
    /\ wishes' = wishes + 1
    /\ libraryCall' = [libraryCall EXCEPT ![c] = r]
    /\ UNCHANGED Tables

Move(c, r) == libraryCall' = [libraryCall EXCEPT ![c] = r]
To(c, s)   == Move(c, [libraryCall[c] EXCEPT !.step = s])
Over(c)    == Move(c, IdleWish)

\* To the library with a sharing, or ensure-only as an avatar, by the form of the
\* profile or by that of the library; the profile was read before.
Upload(c, o, i, sharing, form) ==
    Begin(c, [step |-> "find", owner |-> o, image |-> i, sharing |-> sharing,
              form |-> form, old |-> avatar[o], found |-> None, present |-> FALSE])

\* An avatar is then set, before or after the old object is dropped.
Registered(c) ==
    LET r == libraryCall[c]
    IN  IF r.sharing # None THEN Over(c)
        ELSE To(c, IF r.form = "profile" THEN "drop" ELSE "set")

\* findRegistration; a live one ends an ensure-only upload here.
FindRegistration(c) ==
    LET r == libraryCall[c]
        row == assets[<<r.owner, r.image>>]
    IN  /\ r.step = "find"
        /\ \/ /\ Live(r.owner, r.image) /\ r.sharing = None
              /\ Registered(c)
           \/ /\ Live(r.owner, r.image) /\ r.sharing # None
              /\ Move(c, [r EXCEPT !.step = "update", !.found = row])
           \/ /\ ~Live(r.owner, r.image)
              /\ Move(c, [r EXCEPT !.step = "head", !.found = row])
        /\ UNCHANGED <<Tables, wishes>>

\* storage.head, or the error that ends the call.
HeadObject(c) ==
    LET r == libraryCall[c]
    IN  /\ r.step = "head"
        /\ \/ Move(c, [r EXCEPT !.step = "inventory", !.present = r.image \in objects])
           \/ "storage" \in LibraryFaults /\ Over(c)
        /\ UNCHANGED <<Tables, wishes>>

\* Mutated Inventory: no row for bytes that are not stored yet.
InventoryStored(c) ==
    LET r == libraryCall[c]
    IN  /\ r.step = "inventory"
        /\ blobs' = IF r.present THEN blobs \cup {r.image} ELSE blobs
        /\ To(c, IF r.present THEN "register" ELSE "store")
        /\ UNCHANGED <<objects, assets, grants, avatar, legacy, wishes>>

\* The inventory row is there before the bytes.
Inventory(c) ==
    LET r == libraryCall[c]
    IN  /\ r.step = "inventory"
        /\ blobs' = blobs \cup {r.image}
        /\ To(c, IF r.present THEN "register" ELSE "store")
        /\ UNCHANGED <<objects, assets, grants, avatar, legacy, wishes>>

Store(c) ==
    LET r == libraryCall[c]
    IN  /\ r.step = "store"
        /\ \/ objects' = objects \cup {r.image} /\ To(c, "register")
           \/ "storage" \in LibraryFaults /\ UNCHANGED objects /\ Over(c)
        /\ UNCHANGED <<blobs, assets, grants, avatar, legacy, wishes>>

Requested(r) == IF r.sharing = None THEN "private" ELSE r.sharing

\* updateRegistration by id, with or without taking the tombstone off.
Updated(r, reactivate) ==
    [assets EXCEPT ![<<r.owner, r.image>>] =
        [sharing |-> Requested(r), live |-> @.live \/ reactivate]]

\* A new sharing for the registration that was found live.
Retag(c) ==
    LET r == libraryCall[c]
    IN  /\ r.step = "update"
        /\ assets' = Updated(r, FALSE)
        /\ Over(c)
        /\ UNCHANGED <<blobs, objects, grants, avatar, legacy, wishes>>

\* A tombstone that was found is reactivated; else INSERT ... ON CONFLICT DO NOTHING.
Register(c) ==
    LET r == libraryCall[c]
        row == assets[<<r.owner, r.image>>]
    IN  /\ r.step = "register"
        /\ \/ /\ r.found # None
              /\ assets' = Updated(r, TRUE) /\ Registered(c)
           \/ /\ r.found = None /\ row = None
              /\ assets' = [assets EXCEPT ![<<r.owner, r.image>>] =
                               [sharing |-> Requested(r), live |-> TRUE]]
              /\ Registered(c)
           \/ /\ r.found = None /\ row # None
              /\ UNCHANGED assets /\ To(c, "winner")
        /\ UNCHANGED <<blobs, objects, grants, avatar, legacy, wishes>>

\* Another call inserted first: its row is kept as it is, or updated.
ReadWinner(c) ==
    LET r == libraryCall[c]
        row == assets[<<r.owner, r.image>>]
    IN  /\ r.step = "winner"
        /\ IF r.sharing = None /\ row.live THEN Registered(c)
           ELSE Move(c, [r EXCEPT !.step = "adopt", !.found = row])
        /\ UNCHANGED <<Tables, wishes>>

AdoptWinner(c) ==
    LET r == libraryCall[c]
    IN  /\ r.step = "adopt"
        /\ assets' = Updated(r, ~r.found.live)
        /\ Registered(c)
        /\ UNCHANGED <<blobs, objects, grants, avatar, legacy, wishes>>

-----------------------------------------------------------------------------
(* The avatar *)

After(c, s) == IF libraryCall[c].form = "profile" /\ s = "set" THEN To(c, "set")
               ELSE IF libraryCall[c].form = "library" /\ s = "drop" THEN To(c, "drop")
               ELSE Over(c)

\* The object of the old key is deleted, never one of the library.
DropLegacy(c) ==
    LET r == libraryCall[c]
    IN  /\ r.step = "drop"
        /\ legacy' = IF r.old = "legacy" THEN legacy \ {r.owner} ELSE legacy
        /\ After(c, "set")
        /\ UNCHANGED <<blobs, objects, assets, grants, avatar, wishes>>

SetAvatar(c) ==
    LET r == libraryCall[c]
    IN  /\ r.step = "set"
        /\ avatar' = [avatar EXCEPT ![r.owner] = r.image]
        /\ After(c, "drop")
        /\ UNCHANGED <<blobs, objects, assets, grants, legacy, wishes>>

-----------------------------------------------------------------------------
(* Tombstones and grants *)

\* One UPDATE of the owner's live row.
DeleteAsset(o, i) ==
    /\ wishes < MaxWishes
    /\ Live(o, i)
    /\ assets' = [assets EXCEPT ![<<o, i>>].live = FALSE]
    /\ wishes' = wishes + 1
    /\ UNCHANGED <<blobs, objects, grants, avatar, legacy, libraryCall>>

\* findManageableAsset, and the look at its sharing.
Grant(c, o, i, a) ==
    /\ Live(o, i) /\ assets[<<o, i>>].sharing = "requestable" /\ a # o
    /\ Begin(c, [step |-> "grant", owner |-> o, image |-> i, grantee |-> a])

InsertGrant(c) ==
    LET r == libraryCall[c]
    IN  /\ r.step = "grant"
        /\ grants' = grants \cup {<<r.owner, r.image, r.grantee>>}
        /\ Over(c)
        /\ UNCHANGED <<blobs, objects, assets, avatar, legacy, wishes>>

Revoke(c, o, i, a) ==
    /\ Live(o, i)
    /\ Begin(c, [step |-> "revoke", owner |-> o, image |-> i, grantee |-> a])

DeleteGrant(c) ==
    LET r == libraryCall[c]
    IN  /\ r.step = "revoke"
        /\ grants' = grants \ {<<r.owner, r.image, r.grantee>>}
        /\ Over(c)
        /\ UNCHANGED <<blobs, objects, assets, avatar, legacy, wishes>>

\* The process dies: every call in flight is gone.
LibraryCrash ==
    /\ "crash" \in LibraryFaults
    /\ \E c \in LibraryCalls : libraryCall[c] # IdleWish
    /\ libraryCall' = [c \in LibraryCalls |-> IdleWish]
    /\ UNCHANGED <<Tables, wishes>>

-----------------------------------------------------------------------------
LibraryInit ==
    /\ blobs = {} /\ objects = {} /\ grants = {} /\ wishes = 0
    /\ assets = [x \in Artists \X Images |-> None]
    /\ legacy \in SUBSET Artists
    /\ avatar = [a \in Artists |-> IF a \in legacy THEN "legacy" ELSE None]
    /\ libraryCall = [c \in LibraryCalls |-> IdleWish]

LibraryStep(c) ==
    \/ FindRegistration(c) \/ HeadObject(c) \/ Inventory(c) \/ Store(c)
    \/ Retag(c) \/ Register(c) \/ ReadWinner(c) \/ AdoptWinner(c)
    \/ DropLegacy(c) \/ SetAvatar(c) \/ InsertGrant(c) \/ DeleteGrant(c)

LibraryNext ==
    \/ \E c \in LibraryCalls :
        \/ LibraryStep(c)
        \/ \E o \in Artists, i \in Images :
            \/ \E s \in Sharings : Upload(c, o, i, s, "library")
            \/ \E form \in {"profile", "library"} : Upload(c, o, i, None, form)
            \/ \E a \in Artists : Grant(c, o, i, a) \/ Revoke(c, o, i, a)
    \/ \E o \in Artists, i \in Images : DeleteAsset(o, i)
    \/ LibraryCrash

LibrarySpec == LibraryInit /\ [][LibraryNext]_libraryVars

-----------------------------------------------------------------------------
(* Properties *)

\* library.ts: the inventory is committed before any upload, so that whatever is in
\* the store can be enumerated, also after a failure or a crash in between.
StoredIsInventoried == objects \subseteq blobs

\* library.ts, library.routes.ts: whatever calls overlap or fail, the image of a live
\* registration, and the library image a profile shows, can be served.
RegisteredIsServed ==
    /\ \A o \in Artists, i \in Images : Live(o, i) => i \in objects \cap blobs
    /\ \A a \in Artists : avatar[a] \in Images => avatar[a] \in objects

\* library.ts decides twice who may use an image, for the list it shows and for the
\* press kit that takes a key; the two agree through tombstones, grants and sharings.
UseAgrees ==
    \A a \in Artists, i \in Images :
        CanUse(a, i) <=> UseStatus(a, i) # "requestable-needs-grant"
=============================================================================
