------------------------------ MODULE Profile ------------------------------
(***************************************************************************)
(* The profile of one machine, ~/.sanctum: `sanctum init' (init.rs), the   *)
(* commands of `sanctum identity' (identity.rs) and the identity that host *)
(* create, room invite and join load (identity_pgp.rs).  A file is opened, *)
(* which empties it, and then filled; the program may be killed, or a write *)
(* may fail, between any two of these steps.  Commands that write the       *)
(* profile run one at a time, those that read it at any time.               *)
(***************************************************************************)
EXTENDS Naturals, Sequences

CONSTANTS Absent,   \* no such file
          Broken,   \* a file that has been emptied and not been filled
          MaxIds    \* bound: key pairs ever generated or imported

Ids == 1 .. MaxIds   \* a key pair stands for its fingerprint too

ASSUME ProfileAssumption == /\ MaxIds \in Nat \ {0}
                            /\ Absent \notin Ids /\ Broken \notin Ids
                            /\ Absent # Broken

VARIABLES disk,     \* whose key, fingerprint or name each file holds
          keysDir,  \* is there a directory for the keys?
          at,       \* the file the running command writes next; 0: none runs
          opened,   \* has it been opened, and so emptied?
          mine,     \* the identity that command holds in memory
          made,     \* key pairs made so far
          said,     \* history: identities that init, host create, room invite
                    \* or join have named since the profile was last deleted
          shown     \* history: those that the commands of identity have named

command == <<at, opened, mine>>
profileVars == <<disk, keysDir, command, made, said, shown>>

Files == {"key", "pub", "fingerprint", "config", "signing"}

\* Variant of Order: the public key is saved before the private one.
OrderPubFirst == <<"pub", "key", "fingerprint", "config", "signing">>

\* What init writes, in this order; identity import writes the fifth alone.
Order == <<"key", "pub", "fingerprint", "config", "signing">>

InitLast == 4
ImportAt == 5

\* Where a command goes on when file n is written.
After(n) == IF n < InitLast THEN n + 1 ELSE 0

\* IdentityAdapter::from_key takes exactly the 32 bytes of a whole key.
Loads == disk["key"] \in Ids

ProfileInit == /\ disk = [f \in Files |-> Absent] /\ keysDir = FALSE
               /\ at = 0 /\ opened = FALSE /\ mine = Absent
               /\ made = 0 /\ said = {} /\ shown = {}
-----------------------------------------------------------------------------
(* init.rs *)

\* Variant of Exists: it asks for the file that status.rs asks for.
ExistsSigning == disk["signing"] # Absent

\* A profile exists once its private key does, whatever else is missing.
Exists == disk["key"] # Absent

InitFresh == /\ at = 0 /\ ~ Exists /\ made < MaxIds
             /\ keysDir' = TRUE
             /\ made' = made + 1 /\ mine' = made'
             /\ at' = 1
             /\ UNCHANGED <<disk, opened, said, shown>>

\* The existing identity is loaded and named; a broken one is an error.
InitAgain == /\ at = 0 /\ Exists /\ Loads
             /\ said' = said \cup {disk["key"]}
             /\ UNCHANGED <<disk, keysDir, command, made, shown>>
-----------------------------------------------------------------------------
(* Writing a file: std::fs::write *)

Open == /\ at # 0 /\ ~ opened
        /\ disk' = [disk EXCEPT ![Order[at]] = Broken]
        /\ opened' = TRUE
        /\ UNCHANGED <<keysDir, at, mine, made, said, shown>>

\* The command that has written its last file names the identity.
Fill == /\ at # 0 /\ opened
        /\ disk' = [disk EXCEPT ![Order[at]] = mine]
        /\ opened' = FALSE /\ at' = After(at)
        /\ said' = IF at = InitLast THEN said \cup {mine} ELSE said
        /\ shown' = IF at = ImportAt THEN shown \cup {mine} ELSE shown
        /\ UNCHANGED <<keysDir, mine, made>>

\* A write fails, and the command returns, or the program is killed.
Stop == /\ at # 0
        /\ at' = 0 /\ opened' = FALSE
        /\ UNCHANGED <<disk, keysDir, mine, made, said, shown>>
-----------------------------------------------------------------------------
(* identity.rs *)

\* The key goes to a file of its own, in a directory that has to be there.
Import == /\ at = 0 /\ keysDir /\ made < MaxIds
          /\ made' = made + 1 /\ mine' = made'
          /\ at' = ImportAt
          /\ UNCHANGED <<disk, keysDir, opened, said, shown>>

\* Shows what import has written; a broken file makes the program panic.
Show == /\ disk["signing"] \in Ids
        /\ shown' = shown \cup {disk["signing"]}
        /\ UNCHANGED <<disk, keysDir, command, made, said>>

\* A key pair for tests, which is not kept.
Generate == /\ at = 0 /\ made < MaxIds
            /\ made' = made + 1 /\ keysDir' = TRUE
            /\ shown' = shown \cup {made'}
            /\ UNCHANGED <<disk, command, said>>
-----------------------------------------------------------------------------
\* load_from_disk, as host create, room invite and join begin.
LoadFromDisk == /\ Loads
                /\ said' = said \cup {disk["key"]}
                /\ UNCHANGED <<disk, keysDir, command, made, shown>>

\* "to reinitialize, delete ~/.sanctum/ first"
Delete == /\ at = 0 /\ keysDir
          /\ disk' = [f \in Files |-> Absent] /\ keysDir' = FALSE
          /\ said' = {} /\ shown' = {}
          /\ UNCHANGED <<command, made>>

ProfileNext == \/ InitFresh \/ InitAgain \/ Open \/ Fill \/ Stop
               \/ Import \/ Show \/ Generate
               \/ LoadFromDisk \/ Delete

ProfileSpec == ProfileInit /\ [][ProfileNext]_profileVars
-----------------------------------------------------------------------------
(* Properties *)

\* Every variable stays in its type.
ProfileTypeOK ==
    /\ disk \in [Files -> Ids \cup {Absent, Broken}]
    /\ keysDir \in BOOLEAN /\ opened \in BOOLEAN
    /\ at \in 0 .. ImportAt /\ made \in 0 .. MaxIds
    /\ mine \in Ids \cup {Absent}
    /\ said \subseteq Ids /\ shown \subseteq Ids

\* The public key, the fingerprint and the configuration on disk never belong
\* to another identity than the private key, wherever init was interrupted and
\* however often it is run again (save_to_disk, init.rs).
FilesAgree == \A f \in {"pub", "fingerprint", "config"} :
                 disk[f] \in {Absent, Broken, disk["key"]}

\* The identity that a command has once named is the one that hosts, invites
\* and joins until the profile is deleted: an invitation for the fingerprint
\* init has named is for the one join presents (init.rs, load_from_disk).
IdentityLasts == \A i \in said : disk["key"] = i
\* What holds between the steps of init, and makes the two above inductive: no
\* file of the profile is written before the key, and from the second one on the
\* running init writes the identity whose key is there.
InitInStep ==
    /\ disk["key"] \in {Absent, Broken} =>
          \A f \in {"pub", "fingerprint", "config"} : disk[f] = Absent
    /\ at # 0 => mine \in Ids
    /\ at = 1 => disk["key"] \notin Ids
    /\ at \in 2 .. InitLast => disk["key"] = mine

ProfileInv == ProfileTypeOK /\ InitInStep /\ FilesAgree /\ IdentityLasts
-----------------------------------------------------------------------------
(* What the documentation says and the code does not keep. *)

\* The fingerprint that identity import and show have named is the one that
\* join presents (sanctum-cli-guide.md, the steps from import to join).
ShownServes == \A i \in shown : Loads => disk["key"] = i
=============================================================================
