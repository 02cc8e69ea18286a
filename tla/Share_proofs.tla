----------------------------- MODULE Share_proofs -----------------------------
(***************************************************************************)
(* The connections of the archive backends, for every configuration.        *)
(***************************************************************************)
EXTENDS Share, TLAPS

Working == pc \in {"archive", "media", "umount"}

(* A connection owns one mount and one credentials file; all others are     *)
(* accounted for by stuck and lost.                                         *)
ShareInv ==
    /\ mounts = IF Working /\ backend # "remote" THEN stuck + 1 ELSE stuck
    /\ pc = "mount" => backend # "remote"
    /\ ~local

FileInv ==
    /\ files \subseteq IF pc = "mount" \/ Working
                       THEN lost \cup {credentialsFile} ELSE lost
    /\ backend # "cifs" => files \subseteq lost
    /\ backend = "cifs" /\ pc = "mount" => credentialsFile # 0

(* None of the properties is inductive without the other parts.             *)
IInv == TypeOK /\ ShareInv /\ FileInv

(* Where SyncMedia puts a folder.                                           *)
LEMMA PlaceType ==
    ASSUME NEW folder \in Folders
    PROVE  <<folder, Append(Subdir(folder), folder)>> \in Folders \X Seq(Folders)
<1>1. Subdir(folder) \in Seq(Folders)
  <2>1. CASE folder = "Boombox"
    <3>1. Subdir(folder) = <<folder>>
      BY <2>1 DEF Subdir
    <3> QED BY <3>1
  <2>2. CASE folder # "Boombox"
    <3>1. Subdir(folder) = <<>>
      BY <2>2 DEF Subdir
    <3> QED BY <3>1
  <2> QED BY <2>1, <2>2
<1> QED BY <1>1

(* Every step keeps the types.                                              *)
LEMMA TypeStep == IInv /\ [Next]_vars => TypeOK'
<1> USE ShareAssumption DEF Steps
<1> SUFFICES ASSUME IInv, [Next]_vars PROVE TypeOK'
  OBVIOUS
<1> USE DEF TypeOK, IInv
<1>1. CASE IsReachable
  BY <1>1 DEF IsReachable, share, creds, copies
<1>2. CASE ConnectRemote
  BY <1>2 DEF ConnectRemote, Connected, share, creds, copies
<1>3. CASE CreateTemp
  <2>1. made' = made + 1 /\ made' \in 0 .. MaxFiles
    BY <1>3 DEF CreateTemp
  <2>5. made' \in 1 .. made' /\ made' \in 0 .. made' /\ 1 .. made \subseteq 1 .. made'
    BY <2>1
  <2>2. credentialsFile' \in 0 .. made' /\ files' \subseteq 1 .. made'
    BY <1>3, <2>5 DEF CreateTemp
  <2>3. lost' \subseteq 1 .. made'
    BY <1>3, <2>5 DEF CreateTemp
  <2>4. pc' \in Steps /\ todo' \subseteq Enabled
    BY <1>3 DEF CreateTemp, NotConnected
  <2> QED BY <1>3, <2>1, <2>2, <2>3, <2>4 DEF CreateTemp, share, copies
<1>4. CASE CreateTempFails
  BY <1>4 DEF CreateTempFails, NotConnected, share, creds, copies
<1>5. CASE \E ok \in BOOLEAN : MkdirAll(ok)
  BY <1>5 DEF MkdirAll, NotConnected, share, creds, copies
<1>6. CASE MountFails
  BY <1>6 DEF MountFails, NotConnected, share, copies, FileInv
<1>7. CASE MountShare
  BY <1>7 DEF MountShare, Connected, creds, copies
<1>8. CASE ArchiveFiles
  BY <1>8 DEF ArchiveFiles, share, creds
<1>9. CASE Return
  BY <1>9 DEF Return, share, creds, copies
<1>10. CASE \E folder \in Folders : SyncMedia(folder)
  <2> PICK folder \in Folders : SyncMedia(folder)
    BY <1>10
  <2>1. places' \subseteq Folders \X Seq(Folders)
    BY PlaceType DEF SyncMedia
  <2> QED BY <2>1 DEF SyncMedia, share, creds
<1>11. CASE Disconnect
  BY <1>11 DEF Disconnect, copies
<1>12. CASE Cancel
  BY <1>12 DEF Cancel, share, creds, copies
<1>13. CASE Die
  <2>1. mounts' \in 0 .. MaxMounts /\ stuck' \in Nat
    BY <1>13 DEF Die
  <2>2. files' \subseteq 1 .. made /\ lost' \subseteq 1 .. made
    BY <1>13 DEF Die
  <2>3. made' = made /\ credentialsFile' \in 0 .. made
    BY <1>13 DEF Die
  <2>4. pc' \in Steps /\ todo' \subseteq Enabled /\ cancelled' \in BOOLEAN
    BY <1>13 DEF Die
  <2>5. UNCHANGED <<backend, places, local>>
    BY <1>13 DEF Die, copies
  <2> QED BY <2>1, <2>2, <2>3, <2>4, <2>5
<1>14. CASE UNCHANGED vars
  BY <1>14 DEF vars
<1> QED BY <1>1, <1>2, <1>3, <1>4, <1>5, <1>6, <1>7, <1>8, <1>9, <1>10,
           <1>11, <1>12, <1>13, <1>14 DEF Next

(* Every step accounts for the mounts, and writes footage to the share.     *)
LEMMA ShareStep == IInv /\ [Next]_vars => ShareInv'
<1> SUFFICES ASSUME IInv, [Next]_vars PROVE ShareInv'
  OBVIOUS
<1> USE DEF TypeOK, IInv, ShareInv, Working
<1>1. CASE IsReachable
  BY <1>1 DEF IsReachable, share, copies
<1>2. CASE ConnectRemote
  BY <1>2 DEF ConnectRemote, Connected, share, copies
<1>3. CASE CreateTemp
  BY <1>3 DEF CreateTemp, NotConnected, share, copies
<1>4. CASE CreateTempFails
  BY <1>4 DEF CreateTempFails, NotConnected, share, copies
<1>5. CASE \E ok \in BOOLEAN : MkdirAll(ok)
  BY <1>5 DEF MkdirAll, NotConnected, share, copies
<1>6. CASE MountFails
  BY <1>6 DEF MountFails, NotConnected, share, copies
<1>7. CASE MountShare
  BY <1>7 DEF MountShare, Connected, copies
<1>8. CASE ArchiveFiles
  BY <1>8 DEF ArchiveFiles, share
<1>9. CASE Return
  BY <1>9 DEF Return, share, copies
<1>10. CASE \E folder \in Folders : SyncMedia(folder)
  BY <1>10 DEF SyncMedia, share
<1>11. CASE Disconnect
  BY <1>11 DEF Disconnect, copies
<1>12. CASE Cancel
  BY <1>12 DEF Cancel, share, copies
<1>13. CASE Die
  BY <1>13 DEF Die, copies
<1>14. CASE UNCHANGED vars
  BY <1>14 DEF vars
<1> QED BY <1>1, <1>2, <1>3, <1>4, <1>5, <1>6, <1>7, <1>8, <1>9, <1>10,
           <1>11, <1>12, <1>13, <1>14 DEF Next

(* Every step accounts for the credentials files.                           *)
LEMMA FileStep == IInv /\ [Next]_vars => FileInv'
<1> SUFFICES ASSUME IInv, [Next]_vars PROVE FileInv'
  OBVIOUS
<1> USE DEF TypeOK, IInv, FileInv, Working
<1>1. CASE IsReachable
  BY <1>1 DEF IsReachable, creds
<1>2. CASE ConnectRemote
  BY <1>2 DEF ConnectRemote, Connected, creds
<1>3. CASE CreateTemp
  BY <1>3 DEF CreateTemp, NotConnected
<1>4. CASE CreateTempFails
  BY <1>4 DEF CreateTempFails, NotConnected, creds
<1>5. CASE \E ok \in BOOLEAN : MkdirAll(ok)
  BY <1>5 DEF MkdirAll, NotConnected, creds
<1>6. CASE MountFails
  BY <1>6 DEF MountFails, NotConnected
<1>7. CASE MountShare
  BY <1>7 DEF MountShare, Connected, creds
<1>8. CASE ArchiveFiles
  BY <1>8 DEF ArchiveFiles, creds
<1>9. CASE Return
  BY <1>9 DEF Return, creds
<1>10. CASE \E folder \in Folders : SyncMedia(folder)
  BY <1>10 DEF SyncMedia, creds
<1>11. CASE Disconnect
  BY <1>11 DEF Disconnect
<1>12. CASE Cancel
  BY <1>12 DEF Cancel, creds
<1>13. CASE Die
  BY <1>13 DEF Die
<1>14. CASE UNCHANGED vars
  BY <1>14 DEF vars, creds
<1> QED BY <1>1, <1>2, <1>3, <1>4, <1>5, <1>6, <1>7, <1>8, <1>9, <1>10,
           <1>11, <1>12, <1>13, <1>14 DEF Next

(* The three parts are inductive together.                                  *)
LEMMA Invariant == Spec => []IInv
<1>1. Init => IInv
  <2>1. Init => TypeOK
    <3> SUFFICES ASSUME Init PROVE TypeOK
      OBVIOUS
    <3>1. mounts \in 0 .. MaxMounts /\ stuck \in Nat /\ made \in 0 .. MaxFiles
      BY ShareAssumption DEF Init
    <3>2. credentialsFile \in 0 .. made
      BY DEF Init
    <3>3. /\ files \subseteq 1 .. made /\ lost \subseteq 1 .. made
          /\ places \subseteq Folders \X Seq(Folders)
      BY DEF Init
    <3> QED BY <3>1, <3>2, <3>3 DEF Init, TypeOK, Steps
  <2>2. Init => ShareInv /\ FileInv
    BY DEF Init, ShareInv, FileInv, Working
  <2> QED BY <2>1, <2>2 DEF IInv
<1>2. IInv /\ [Next]_vars => IInv'
  BY TypeStep, ShareStep, FileStep DEF IInv
<1> QED BY <1>1, <1>2, PTL DEF Spec

-----------------------------------------------------------------------------
(* Every variable keeps its type (cifs.go, nfs.go, main.go:345-489).        *)
THEOREM TypeCorrect == Spec => []TypeOK
<1>1. IInv => TypeOK
  BY DEF IInv
<1> QED BY <1>1, Invariant, PTL

(* Footage is written only where a share is mounted (cifs.go:100-121).      *)
THEOREM ReachesShare == Spec => []FootageReachesShare
<1>1. IInv => FootageReachesShare
  BY DEF IInv, ShareInv, FootageReachesShare
<1> QED BY <1>1, Invariant, PTL

(* Every connection gives its mount up again, unless umount fails or the    *)
(* process dies (main.go:351-355, 485-489).                                 *)
THEOREM MountsAreGivenUp == Spec => []MountsGivenUp
<1>1. IInv => MountsGivenUp
  BY DEF IInv, TypeOK, ShareInv, Working, MountsGivenUp
<1> QED BY <1>1, Invariant, PTL

(* Every connection removes its credentials file (cifs.go:84-98).           *)
THEOREM FilesAreGivenUp == Spec => []FilesGivenUp
<1>1. IInv => FilesGivenUp
  BY DEF IInv, FileInv, Working, FilesGivenUp
<1> QED BY <1>1, Invariant, PTL

-----------------------------------------------------------------------------
(* "The folder name corresponds to the root-level directory Tesla expects   *)
(* on each USB partition" (archive.go:46-48): of every folder but one.      *)
RootedButBoombox == \A p \in places : p[2] = <<p[1]>> <=> p[1] # "Boombox"

(* Music and light shows always go to the folder of their name at the root  *)
(* of their partition, sounds never do, whatever connections failed         *)
(* (main.go:459, 521-523), whatever main.go:218-219 says of them.           *)
THEOREM FoldersButBoombox == Spec => []RootedButBoombox
<1>1. Init => RootedButBoombox
  BY DEF Init, RootedButBoombox
<1>2. RootedButBoombox /\ [Next]_vars => RootedButBoombox'
  <2> SUFFICES ASSUME RootedButBoombox, [Next]_vars,
                      NEW p \in places', p \notin places
               PROVE  p[2] = <<p[1]>> <=> p[1] # "Boombox"
    BY DEF RootedButBoombox
  <2>1. PICK folder \in Folders : SyncMedia(folder)
    BY DEF Next, IsReachable, ConnectRemote, CreateTemp, CreateTempFails, MkdirAll,
           MountFails, MountShare, ArchiveFiles, Return, Disconnect, Cancel, Die,
           copies, vars
  <2>2. p = <<folder, Append(Subdir(folder), folder)>>
    BY <2>1 DEF SyncMedia
  <2>3. CASE folder = "Boombox"
    <3>1. p[2] = Append(<<"Boombox">>, "Boombox")
      BY <2>2, <2>3 DEF Subdir
    <3>2. Len(Append(<<"Boombox">>, "Boombox")) = 2 /\ Len(<<"Boombox">>) = 1
      <4>1. <<"Boombox">> \in Seq({"Boombox"})
        OBVIOUS
      <4> QED BY <4>1
    <3> QED BY <2>2, <2>3, <3>1, <3>2
  <2>4. CASE folder # "Boombox"
    <3>1. Append(<<>>, folder) = <<folder>>
      OBVIOUS
    <3> QED BY <2>2, <2>4, <3>1 DEF Subdir
  <2> QED BY <2>3, <2>4
<1> QED BY <1>1, <1>2, PTL DEF Spec
=============================================================================
