---------------------------- MODULE DentryTable -----------------------------
(***************************************************************************)
(* directory_resolver_t: a copy of a directory's dentries, read from the   *)
(* bytes of the directory's inode and written back whole.  The actions are *)
(* the program's uses of it; do_rename is cut where one resolver saves     *)
(* while another one holds a copy.                                         *)
(*                                                                         *)
(* A name is a sequence of bytes other than zero.  Limit is the 128 of     *)
(* flat_path_pack_t.  MaxEntries bounds a directory.                       *)
(***************************************************************************)
EXTENDS Integers, Sequences

CONSTANTS Dir,         \* directories
          Name,        \* names of dentries
          Id,          \* inode ids; below 256, so that an id has one byte
          Limit,       \* bytes flat_path_pack_t has for a name
          MaxEntries   \* bound on the dentries of a directory

ASSUME DentryTableAssumption ==
  /\ Name \subseteq Seq(1..255)
  /\ Id \subseteq 1..255
  /\ Limit \in Nat \ {0} /\ MaxEntries \in Nat

VARIABLES saved,   \* directory -> sequence of flat_path_pack_t in its inode
          tag,     \* the dentries tag_directoryResolver has copied
          call     \* the do_rename in progress, or Idle

vars == <<saved, tag, call>>

(* ------------------------------ encoding ------------------------------- *)

(* Mutant: room for one byte less.                                         *)
FlatCut(entry) ==
  [entry EXCEPT !.pathname =
     SubSeq(@, 1, IF Len(@) < Limit - 1 THEN Len(@) ELSE Limit - 2)]

(* save_current copies at most Limit bytes and adds no terminator.         *)
Flat(entry) ==
  [entry EXCEPT !.pathname = SubSeq(@, 1, IF Len(@) < Limit THEN Len(@) ELSE Limit)]

(* refresh copies up to the next zero byte: behind a name that fills its   *)
(* field stands the inode id.                                              *)
Unflat(pack) ==
  [pack EXCEPT !.pathname = IF Len(@) < Limit THEN @ ELSE @ \o <<pack.inode_id>>]

(* ----------------------- directory_resolver_t -------------------------- *)

refresh(d) == [k \in DOMAIN saved[d] |-> Unflat(saved[d][k])]

(* Mutant: names are compared as far as the shorter one goes.              *)
PlacesOfPrefix(path, n) ==
  {k \in DOMAIN path : \A j \in DOMAIN path[k].pathname \cap DOMAIN n : path[k].pathname[j] = n[j]}

Places(path, n) == {k \in DOMAIN path : path[k].pathname = n}

check_availability(path, n) == Places(path, n) = {}

(* The first entry of that name, for a name that has one.                  *)
First(path, n) == CHOOSE k \in Places(path, n) : \A j \in Places(path, n) : k <= j
namei(path, n) == path[First(path, n)].inode_id

(* Mutant: the new entry goes before the others.                           *)
AddBefore(path, n, id) == <<[pathname |-> n, inode_id |-> id]>> \o path

add_path(path, n, id) == Append(path, [pathname |-> n, inode_id |-> id])

(* Mutant: the last entry takes the place of the one that goes.            *)
RemoveBySwap(path, n) ==
  [k \in 1..Len(path) - 1 |-> IF k = First(path, n) THEN path[Len(path)] ELSE path[k]]

remove_path(path, n) ==
  [k \in 1..Len(path) - 1 |-> IF k < First(path, n) THEN path[k] ELSE path[k + 1]]

save_current(d, path) == saved' = [saved EXCEPT ![d] = [k \in DOMAIN path |-> Flat(path[k])]]

(* ------------------------------ the program ---------------------------- *)

Idle == [at |-> "idle"]
Goto(at) == call' = [call EXCEPT !.at = at]

Init == saved = [d \in Dir |-> <<>>] /\ tag = <<>> /\ call = Idle

(* Mutant: a name is made without a look at the ones there are.            *)
MakeUnchecked(d, n, id) ==
  /\ call = Idle /\ Len(saved[d]) < MaxEntries
  /\ \A e \in Dir : \A k \in DOMAIN saved[e] : saved[e][k].inode_id # id
  /\ save_current(d, add_path(refresh(d), n, id))
  /\ UNCHANGED <<tag, call>>

(* make_child_dentry_under_parent, with an id from get_free_id.            *)
Make(d, n, id) ==
  /\ call = Idle /\ Len(saved[d]) < MaxEntries
  /\ \A e \in Dir : \A k \in DOMAIN saved[e] : saved[e][k].inode_id # id
  /\ check_availability(refresh(d), n)
  /\ save_current(d, add_path(refresh(d), n, id))
  /\ UNCHANGED <<tag, call>>

(* The resolver of remove_child_dentry_under_parent.                       *)
RemoveChild(d, n) ==
  ~check_availability(refresh(d), n) /\ save_current(d, remove_path(refresh(d), n))

Remove(d, n) == call = Idle /\ RemoveChild(d, n) /\ UNCHANGED <<tag, call>>

(* do_rename looks the inode up and opens tag_directoryResolver.  The      *)
(* kernel renames nothing onto itself.                                     *)
do_rename(from, name, to, as) ==
  /\ call = Idle /\ <<from, name>> # <<to, as>>
  /\ ~check_availability(refresh(from), name)
  /\ Len(saved[to]) < MaxEntries
  /\ tag' = refresh(to)
  /\ call' = [at |-> "link", from |-> from, name |-> name, to |-> to, as |-> as,
              id |-> namei(refresh(from), name)]
  /\ UNCHANGED saved

LinkNew ==
  /\ call.at = "link" /\ check_availability(tag, call.as)
  /\ tag' = add_path(tag, call.as, call.id) /\ save_current(call.to, tag')
  /\ Goto("second")

(* remove_child_dentry_under_parent, while tag keeps its copy.             *)
RemoveTaken ==
  /\ call.at = "link" /\ ~check_availability(tag, call.as)
  /\ RemoveChild(call.to, call.as)
  /\ Goto("relink") /\ UNCHANGED tag

(* Mutant: what tag has copied, whatever was saved since, and where.       *)
Kept(d) == tag

(* The dentries as they are now, after other resolvers have saved.         *)
Reloaded(d) == refresh(d)

(* add_path throws, out of do_rename, on a name it still finds.            *)
Relink ==
  /\ call.at = "relink"
  /\ tag' = Reloaded(call.to)
  /\ IF check_availability(tag', call.as)
     THEN save_current(call.to, add_path(tag', call.as, call.id)) /\ Goto("second")
     ELSE call' = Idle /\ UNCHANGED saved

(* Mutant: ori_directoryResolver does not save.                            *)
RemoveOldUnsaved == call.at = "second" /\ tag' = <<>> /\ call' = Idle /\ UNCHANGED saved

(* ori_directoryResolver, opened after tag has saved; remove_path throws   *)
(* on a name it does not find.                                             *)
RemoveOld ==
  /\ call.at = "second"
  /\ LET ori == Reloaded(call.from)
     IN  IF check_availability(ori, call.name) THEN UNCHANGED saved
         ELSE save_current(call.from, remove_path(ori, call.name))
  /\ tag' = <<>> /\ call' = Idle

Next ==
  \/ \E d \in Dir, n \in Name :
       \/ \E id \in Id : Make(d, n, id)
       \/ Remove(d, n)
       \/ \E to \in Dir, as \in Name : do_rename(d, n, to, as)
  \/ LinkNew \/ RemoveTaken \/ Relink \/ RemoveOld

Spec == Init /\ [][Next]_vars

(* ------------------------------ properties ----------------------------- *)

Entries(S) == UNION {[1..k -> S] : k \in 0..MaxEntries}
TypeOK ==
  /\ saved \in [Dir -> Entries([pathname : Name, inode_id : Id])]
  /\ tag \in Entries([pathname : Name, inode_id : Id])

(* No directory ever has one name twice: namei and remove_path, which take *)
(* the first match, have no choice.                                        *)
NamesAreUnique ==
  \A d \in Dir : \A j, k \in DOMAIN saved[d] :
    saved[d][j].pathname = saved[d][k].pathname => j = k

(* Between two handlers an inode is in one place; a rename has it in two,  *)
(* and never in none.                                                      *)
Holds(id) == {place \in Dir \X (1..MaxEntries) :
                place[2] \in DOMAIN saved[place[1]] /\ saved[place[1]][place[2]].inode_id = id}
RenamedHasAPlace ==
  /\ call # Idle => Holds(call.id) # {}
  /\ call = Idle => \A id \in Id : \A p, q \in Holds(id) : p = q

(* do_rename ends with the inode at its new name and nothing at the old.   *)
RenameMoves ==
  [][\A from, to \in Dir :
       call # Idle /\ call' = Idle /\ call.from = from /\ call.to = to =>
         /\ ~check_availability(refresh(to)', call.as)
         /\ namei(refresh(to)', call.as) = call.id
         /\ check_availability(refresh(from)', call.name)]_vars

(* The order readdir shows is that of creation: whatever stands before an  *)
(* entry that stayed, in what a step saves, is an older entry that stood   *)
(* before it already.  So those that stay keep their order, and a new one  *)
(* comes behind all of them.                                               *)
OrderIsKept ==
  [][\A d \in Dir :
       \A i, l \in DOMAIN saved'[d] : \A k \in DOMAIN saved[d] :
         i < l /\ saved'[d][l] = saved[d][k] =>
           \E j \in DOMAIN saved[d] : j < k /\ saved'[d][i] = saved[d][j]]_vars

(* Every save changes one dentry of what is stored: none is lost because   *)
(* it was written by another resolver after the copy was made.             *)
Abstract == INSTANCE Directories WITH
  entries <- [d \in Dir |->
                [n \in {refresh(d)[k].pathname : k \in DOMAIN saved[d]} |-> namei(refresh(d), n)]]
ImplementsDirectories == Abstract!Spec
=============================================================================
