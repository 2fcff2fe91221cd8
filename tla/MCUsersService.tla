---------------------------- MODULE MCUsersService ----------------------------
(***************************************************************************)
(* A small instance of UsersService. ann sets her name, sets her bio,      *)
(* follows bob twice (the gateway replays it), unfollows him and tries to  *)
(* follow herself; bob's name is too long.  Each request may be the first  *)
(* to need a row. (Reading a profile ends where an update goes on to save: *)
(* it adds nothing to the rows.)                                           *)
(***************************************************************************)
EXTENDS UsersService, TLC

CONSTANTS ann, bob, name, bio, setName, setBio, follow, again, unfollow, self, long

TwoUsers == {ann, bob}
TwoFields == {name, bio}
SevenRequests == {setName, setBio, follow, again, unfollow, self, long}
Ops == (setName :> "update") @@ (setBio :> "update") @@ (long :> "update")
       @@ (unfollow :> "unfollow") @@ [r \in SevenRequests |-> "follow"]
Actors == (long :> bob) @@ [r \in SevenRequests |-> ann]
Targets == (self :> ann) @@ [r \in SevenRequests |-> bob]
Patches == (setName :> {name}) @@ (setBio :> {bio}) @@ (long :> {name})
           @@ [r \in SevenRequests |-> {}]
Lengthy == {long}
FollowsAlike == Permutations({follow, again})
=============================================================================
