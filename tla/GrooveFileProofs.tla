---------------------------- MODULE GrooveFileProofs ----------------------------
(***************************************************************************)
(* Proofs about GrooveFile, for any number of files, of packets in a file   *)
(* and of calls: a file that was never named to groove_file_save_as         *)
(* survives failures and crashes (FileSurvives), a save that fails leaves   *)
(* no temporary file (LitterSafe), and a clean file has its tags on disk    *)
(* (SavedSafe).                                                            *)
(*                                                                         *)
(* None of the three is inductive.  That a name survives needs to be known  *)
(* of every inode, for the copy reads one that may have lost its name       *)
(* (Inodes), and of the copy under way (Copying); that writing the one file *)
(* leaves the others alone, that no two names share an inode (Distinct).    *)
(***************************************************************************)
EXTENDS GrooveFile, SequenceTheorems, TLAPS

Names == Name \cup Temp

\* Where the call under way is tells what it has opened so far.
Phases ==
  /\ pc = "idle" <=> call = "none"
  /\ call = "save"    => target \in Temp
  /\ call = "save_as" => target \in overwritten
  /\ tempfile_exists <=> pc \in {"header", "copy", "dead"}
  /\ pc \in {"header", "copy", "rename"} => disk[target] \in Inode
  /\ pc = "rename" => call = "save"
  /\ opened => source \in Inode /\ url \in Name /\ name \in Name
  /\ pc # "idle" => opened

Distinct == \A a, b \in Names : disk[a] = disk[b] /\ disk[a] # Null => a = b

\* A file in order has all of its packets, whatever leads to it; and so has
\* the one that is read.
Inodes ==
  /\ \A i \in Inode : data[i].whole /\ ~short => data[i].packets = Whole
  /\ opened /\ ~short => data[source].whole

\* What has been copied is what has been read.
Copying ==
  /\ pc \in {"header", "copy"} /\ ~short => disk[target] # source
  /\ pc \in {"header", "copy"} => ~data[disk[target]].whole
  /\ pc = "header" => data[disk[target]].packets = <<>>
  /\ pc = "copy" /\ ~short => pos <= Frames /\ data[disk[target]].packets = SubSeq(Whole, 1, pos)
  /\ pc = "rename" => data[disk[target]].whole
  /\ pc \in {"copy", "rename"} => data[disk[target]].tags = tags

Untouched == \A n \in Name \ overwritten : disk[n] # Null /\ Content(n).whole

Litter ==
  ~crashed => \A t \in Temp : disk[t] # Null => target = t /\ pc \in {"header", "copy", "rename", "dead"}

Saved ==
  opened /\ ~dirty /\ url = name /\ url \notin overwritten =>
    disk[url] # Null /\ Content(url).tags = tags

IInv == TypeOK /\ Phases /\ Distinct /\ Inodes /\ Copying /\ Untouched /\ Litter /\ Saved

--------------------------------------------------------------------------------
\* The packets of a whole file, and what is before a place in it.
LEMMA WholePackets ==
  /\ Whole \in Seq(1 .. Frames) /\ Len(Whole) = Frames
  /\ \A k \in 1 .. Frames : Whole[k] = k
  BY FramesAssumption DEF Whole

LEMMA PrefixNone == SubSeq(Whole, 1, 0) = <<>>
  BY WholePackets, FramesAssumption

LEMMA PrefixAll == SubSeq(Whole, 1, Frames) = Whole
  BY WholePackets, FramesAssumption, SubSeqProperties

LEMMA PrefixNext ==
  ASSUME NEW k \in Nat, k < Frames
  PROVE  Append(SubSeq(Whole, 1, k), Whole[k + 1]) = SubSeq(Whole, 1, k + 1)
  BY WholePackets, FramesAssumption, SubSeqProperties

--------------------------------------------------------------------------------
LEMMA Initially == Init => IInv
<1> SUFFICES ASSUME Init PROVE IInv
  OBVIOUS
<1>1. TypeOK
  <2>1. data \in [Inode -> [packets : Seq(1 .. Frames), tags : Nat, whole : BOOLEAN]]
    BY WholePackets DEF Init
  <2>2. budget \in 0 .. Budget /\ overwritten \subseteq Name
    BY FramesAssumption DEF Init
  <2> QED
    BY <2>1, <2>2, Zenon DEF Init, TypeOK
<1>2. Phases /\ Copying /\ Litter /\ Saved
  BY DEF Init, Phases, Copying, Litter, Saved
<1>3. Distinct
  BY TempAssumption DEF Init, Distinct, Names
<1>4. Inodes /\ Untouched
  BY DEF Init, Inodes, Untouched, Content
<1> QED
  BY <1>1, <1>2, <1>3, <1>4 DEF IInv

LEMMA WholeInodes == 
  ASSUME TypeOK, NEW i \in Inode
  PROVE  data[i].packets \in Seq(1 .. Frames) /\ data[i].tags \in Nat /\ data[i].whole \in BOOLEAN
  BY DEF TypeOK

\* A step that writes to a file, and turns to another phase, and no more.
LEMMA StaysTyped ==
  ASSUME TypeOK,
         data' \in [Inode -> [packets : Seq(1 .. Frames), tags : Nat, whole : BOOLEAN]],
         short' \in BOOLEAN, pc' \in {"idle", "open", "header", "copy", "rename", "dead"},
         UNCHANGED <<disk, file, call, target, oc, tempfile_exists, overwritten, crashed, budget, fault>>
  PROVE  TypeOK'
<1>1. /\ disk' \in [Name \cup Temp -> Inode \cup {Null}]
      /\ overwritten' \subseteq Name /\ budget' \in 0 .. Budget
  BY DEF TypeOK
<1>2. /\ opened' \in BOOLEAN /\ dirty' \in BOOLEAN /\ crashed' \in BOOLEAN
      /\ source' \in Inode \cup {Null} /\ url' \in Name \cup {Null} /\ name' \in Name \cup {Null}
      /\ pos' \in Nat /\ tags' \in Nat
  BY DEF TypeOK, file
<1>3. /\ target' \in Name \cup Temp \cup {Null} /\ call' \in {"none", "save", "save_as"}
      /\ oc' \in BOOLEAN /\ tempfile_exists' \in BOOLEAN
      /\ fault' \in {"none", "cleanup_save without oc"}
  BY DEF TypeOK
<1> QED
  BY <1>1, <1>2, <1>3 DEF TypeOK

\* While a call is under way its target is not one of the untouched names,
\* and nothing else leads to the inode it writes to.
LEMMA UnderWay ==
  ASSUME IInv, pc # "idle"
  PROVE  opened /\ source \in Inode /\ target \in Names /\ (target \in Name => target \in overwritten)
  BY TempAssumption DEF IInv, TypeOK, Phases, Names

LEMMA TargetAlone ==
  ASSUME IInv, pc \in {"header", "copy", "rename"}, NEW n \in Name, n \notin overwritten, disk[n] # Null
  PROVE  disk[n] \in Inode /\ disk[n] # disk[target]
<1>1. target \in Names /\ n # target
  BY UnderWay
<1>2. n \in Names /\ disk[n] \in Inode
  BY DEF IInv, TypeOK, Names
<1> QED
  BY <1>1, <1>2 DEF IInv, Distinct


--------------------------------------------------------------------------------
(* One lemma per action: each part of the invariant is kept.                *)

LEMMA OpenStep ==
  ASSUME IInv, NEW n \in Name, NEW hint \in Name, Open(n, hint)
  PROVE  IInv'
<1>a. /\ disk[n] \in Inode /\ data[disk[n]].tags \in Nat /\ data[disk[n]].whole \in BOOLEAN
      /\ short' \in BOOLEAN /\ ~short' => ~short /\ data[disk[n]].whole
  BY WholeInodes DEF IInv, TypeOK, Open
<1>1. TypeOK'
  <2>1. budget' \in 0 .. Budget
    BY FramesAssumption DEF IInv, TypeOK, Open, May, Spend
  <2>2. source' \in Inode /\ tags' \in Nat /\ short' \in BOOLEAN /\ url' \in Name /\ name' \in Name
    BY <1>a DEF Open
  <2> QED
    BY <2>1, <2>2 DEF IInv, TypeOK, Open, disks, saving
<1>2. Phases'
  BY <1>a DEF IInv, Phases, Open, May, Spend, disks, saving
<1>3. Distinct'
  BY DEF IInv, Distinct, Names, Open, May, Spend, disks, saving
<1>4. Inodes'
  BY <1>a DEF IInv, Inodes, Open, May, Spend, disks, saving
<1>5. Copying'
  BY DEF IInv, Copying, Open, May, Spend, disks, saving
<1>6. Untouched'
  BY DEF IInv, Untouched, Content, Open, May, Spend, disks, saving
<1>7. Litter'
  BY DEF IInv, Litter, Open, May, Spend, disks, saving
<1>8. Saved'
  BY DEF IInv, Saved, Content, Open, May, Spend, disks, saving
<1> QED
  BY <1>1, <1>2, <1>3, <1>4, <1>5, <1>6, <1>7, <1>8 DEF IInv

LEMMA CloseStep ==
  ASSUME IInv, Close
  PROVE  IInv'
<1>1. TypeOK'
  BY DEF IInv, TypeOK, Close, disks, saving, history
<1>2. Phases'
  BY DEF IInv, Phases, Close, disks, saving, history
<1>3. Distinct'
  BY DEF IInv, Distinct, Names, Close, disks, saving, history
<1>4. Inodes'
  BY DEF IInv, Inodes, Close, disks, saving, history
<1>5. Copying'
  BY DEF IInv, Copying, Close, disks, saving, history
<1>6. Untouched'
  BY DEF IInv, Untouched, Content, Close, disks, saving, history
<1>7. Litter'
  BY DEF IInv, Litter, Close, disks, saving, history
<1>8. Saved'
  BY DEF IInv, Saved, Content, Close, disks, saving, history
<1> QED
  BY <1>1, <1>2, <1>3, <1>4, <1>5, <1>6, <1>7, <1>8 DEF IInv

LEMMA MetadataSetStep ==
  ASSUME IInv, MetadataSet
  PROVE  IInv'
<1>1. TypeOK'
  BY FramesAssumption DEF IInv, TypeOK, MetadataSet, May, Spend, disks, saving, history
<1>2. Phases'
  BY DEF IInv, Phases, MetadataSet, May, Spend, disks, saving, history
<1>3. Distinct'
  BY DEF IInv, Distinct, Names, MetadataSet, May, Spend, disks, saving, history
<1>4. Inodes'
  BY DEF IInv, Inodes, MetadataSet, May, Spend, disks, saving, history
<1>5. Copying'
  BY DEF IInv, Copying, MetadataSet, May, Spend, disks, saving, history
<1>6. Untouched'
  BY DEF IInv, Untouched, Content, MetadataSet, May, Spend, disks, saving, history
<1>7. Litter'
  BY DEF IInv, Litter, MetadataSet, May, Spend, disks, saving, history
<1>8. Saved'
  BY DEF IInv, Saved, Content, MetadataSet, May, Spend, disks, saving, history
<1> QED
  BY <1>1, <1>2, <1>3, <1>4, <1>5, <1>6, <1>7, <1>8 DEF IInv

LEMMA DecodeStep ==
  ASSUME IInv, Decode
  PROVE  IInv'
<1>1. TypeOK'
  BY DEF IInv, TypeOK, Decode, disks, saving
<1>2. Phases'
  BY DEF IInv, Phases, Decode, disks, saving
<1>3. Distinct'
  BY DEF IInv, Distinct, Names, Decode, disks, saving
<1>4. Inodes'
  BY DEF IInv, Inodes, Decode, disks, saving
<1>5. Copying'
  BY DEF IInv, Copying, Decode, disks, saving
<1>6. Untouched'
  BY DEF IInv, Untouched, Content, Decode, disks, saving
<1>7. Litter'
  BY DEF IInv, Litter, Decode, disks, saving
<1>8. Saved'
  BY DEF IInv, Saved, Content, Decode, disks, saving
<1> QED
  BY <1>1, <1>2, <1>3, <1>4, <1>5, <1>6, <1>7, <1>8 DEF IInv

LEMMA RewindStep ==
  ASSUME IInv, Rewind
  PROVE  IInv'
<1>1. TypeOK'
  BY FramesAssumption DEF IInv, TypeOK, Rewind, Spend, disks, saving
<1>2. Phases'
  BY DEF IInv, Phases, Rewind, Spend, disks, saving
<1>3. Distinct'
  BY DEF IInv, Distinct, Names, Rewind, Spend, disks, saving
<1>4. Inodes'
  BY DEF IInv, Inodes, Rewind, Spend, disks, saving
<1>5. Copying'
  BY DEF IInv, Copying, Rewind, Spend, disks, saving
<1>6. Untouched'
  BY DEF IInv, Untouched, Content, Rewind, Spend, disks, saving
<1>7. Litter'
  BY DEF IInv, Litter, Rewind, Spend, disks, saving
<1>8. Saved'
  BY DEF IInv, Saved, Content, Rewind, Spend, disks, saving
<1> QED
  BY <1>1, <1>2, <1>3, <1>4, <1>5, <1>6, <1>7, <1>8 DEF IInv

LEMMA SaveStep ==
  ASSUME IInv, NEW t \in Temp, Save(t)
  PROVE  IInv'
<1>1. TypeOK'
  BY FramesAssumption DEF IInv, TypeOK, Save, May, Spend, SaveName, disks, file, history
<1>2. Phases'
  <2>1. /\ pc = "idle" /\ opened /\ pc' = "open" /\ call' = "save" /\ target' = t
        /\ UNCHANGED <<disk, overwritten, tempfile_exists, opened, source, url, name>>
    BY DEF Save, SaveName, May, disks, file, history
  <2>2. ~tempfile_exists /\ source \in Inode /\ url \in Name /\ name \in Name
    BY <2>1 DEF IInv, Phases
  <2> QED
    BY <2>1, <2>2 DEF Phases
<1>3. Distinct'
  BY DEF IInv, Distinct, Names, Save, May, Spend, SaveName, disks, file, history
<1>4. Inodes'
  BY DEF IInv, Inodes, Save, May, Spend, SaveName, disks, file, history
<1>5. Copying'
  BY DEF IInv, Copying, Save, May, Spend, SaveName, disks, file, history
<1>6. Untouched'
  BY DEF IInv, Untouched, Content, Save, May, Spend, SaveName, disks, file, history
<1>7. Litter'
  BY DEF IInv, Litter, Save, May, Spend, SaveName, disks, file, history
<1>8. Saved'
  BY DEF IInv, Saved, Content, Save, May, Spend, SaveName, disks, file, history
<1> QED
  BY <1>1, <1>2, <1>3, <1>4, <1>5, <1>6, <1>7, <1>8 DEF IInv

LEMMA SaveAsStep ==
  ASSUME IInv, NEW n \in Name, SaveAs(n)
  PROVE  IInv'
<1>1. TypeOK'
  BY FramesAssumption DEF IInv, TypeOK, SaveAs, May, Spend, disks, file
<1>2. Phases'
  <2>1. /\ pc = "idle" /\ opened /\ pc' = "open" /\ call' = "save_as" /\ target' = n /\ n \in overwritten'
        /\ UNCHANGED <<disk, tempfile_exists, opened, source, url, name>>
    BY DEF SaveAs, May, disks, file
  <2> QED
    BY <2>1 DEF IInv, Phases
<1>3. Distinct'
  BY DEF IInv, Distinct, Names, SaveAs, May, Spend, disks, file
<1>4. Inodes'
  BY DEF IInv, Inodes, SaveAs, May, Spend, disks, file
<1>5. Copying'
  BY DEF IInv, Copying, SaveAs, May, Spend, disks, file
<1>6. Untouched'
  BY DEF IInv, Untouched, Content, SaveAs, May, Spend, disks, file
<1>7. Litter'
  BY DEF IInv, Litter, SaveAs, May, Spend, disks, file
<1>8. Saved'
  BY DEF IInv, Saved, Content, SaveAs, May, Spend, disks, file
<1> QED
  BY <1>1, <1>2, <1>3, <1>4, <1>5, <1>6, <1>7, <1>8 DEF IInv

LEMMA OpenOutputStep ==
  ASSUME IInv, OpenOutput
  PROVE  IInv'
<1> PICK i \in Inode :
      /\ IF disk[target] # Null THEN i = disk[target]
         ELSE i # source /\ \A n \in DOMAIN disk : disk[n] # i
      /\ disk' = [disk EXCEPT ![target] = i]
      /\ data' = [data EXCEPT ![i] = Empty]
      /\ short' = (short \/ i = source)
  BY DEF OpenOutput
<1>0. /\ pc = "open" /\ pc' = "header" /\ oc' = TRUE /\ tempfile_exists' = TRUE
      /\ UNCHANGED <<opened, source, url, name, pos, tags, dirty>>
      /\ UNCHANGED <<call, target, overwritten, crashed, budget, fault>>
  BY DEF OpenOutput, file
<1>a. opened /\ source \in Inode /\ target \in Names /\ (target \in Name => target \in overwritten)
  BY UnderWay DEF OpenOutput
<1>b. \A a \in Names : disk[a] = i => a = target
  BY <1>a DEF IInv, TypeOK, Distinct, Names
<1>c. /\ disk' \in [Names -> Inode \cup {Null}] /\ disk'[target] = i
      /\ \A a \in Names : a # target => disk'[a] = disk[a] /\ disk'[a] # i
  BY <1>a, <1>b DEF IInv, TypeOK, Names
<1>d. /\ Empty \in [packets : Seq(1 .. Frames), tags : Nat, whole : BOOLEAN]
      /\ Empty.packets = <<>> /\ ~Empty.whole
  BY <<>> \in Seq(1 .. Frames) DEF Empty
<1>e. /\ data' \in [Inode -> [packets : Seq(1 .. Frames), tags : Nat, whole : BOOLEAN]]
      /\ data'[i] = Empty /\ \A k \in Inode : k # i => data'[k] = data[k]
  BY <1>d DEF IInv, TypeOK
<1>f. ~short' => i # source /\ ~short
  OBVIOUS
<1>1. TypeOK'
  BY <1>0, <1>a, <1>c, <1>e DEF IInv, TypeOK, Names
<1>2. Phases'
  BY <1>0, <1>a, <1>c DEF IInv, Phases
<1>3. Distinct'
  BY <1>0, <1>a, <1>c DEF IInv, Distinct
<1>4. Inodes'
  BY <1>0, <1>a, <1>e, <1>f, <1>d DEF IInv, Inodes
<1>5. Copying'
  BY <1>0, <1>a, <1>c, <1>e, <1>f, <1>d DEF Copying
<1>6. Untouched'
  BY <1>0, <1>a, <1>c, <1>e DEF IInv, Untouched, Content, Names, TypeOK
<1>7. Litter'
  BY <1>0, <1>a, <1>c DEF IInv, Litter, Names
<1>8. Saved'
  BY <1>0, <1>a, <1>c, <1>e DEF IInv, Saved, Content, Names, TypeOK, Phases
<1> QED
  BY <1>1, <1>2, <1>3, <1>4, <1>5, <1>6, <1>7, <1>8 DEF IInv

LEMMA HeaderStep ==
  ASSUME IInv, Header
  PROVE  IInv'
<1> DEFINE j == disk[target]
<1>0. /\ pc = "header" /\ pc' = "copy" /\ short' = (short \/ pos # 0)
      /\ UNCHANGED <<disk, opened, source, url, name, pos, tags, dirty>>
      /\ UNCHANGED <<call, target, oc, tempfile_exists, overwritten, crashed, budget, fault>>
  BY DEF Header, file
<1>a. opened /\ source \in Inode /\ target \in Names /\ j \in Inode
  BY <1>0, UnderWay DEF IInv, Phases
<1>b. \A n \in Name \ overwritten : disk[n] \in Inode /\ disk[n] # j
  BY <1>0, TargetAlone DEF IInv, Untouched
<1>c. /\ data' \in [Inode -> [packets : Seq(1 .. Frames), tags : Nat, whole : BOOLEAN]]
      /\ data'[j].packets = data[j].packets /\ data'[j].whole = data[j].whole /\ data'[j].tags = tags
      /\ \A k \in Inode : k # j => data'[k] = data[k]
  BY <1>a DEF IInv, TypeOK, Header
<1>d. \A k \in Inode : data'[k].packets = data[k].packets /\ data'[k].whole = data[k].whole
  BY <1>c
<1>1. TypeOK'
  BY <1>0, <1>c, StaysTyped DEF IInv, file
<1>2. Phases'
  BY <1>0 DEF IInv, Phases
<1>3. Distinct'
  BY <1>0 DEF IInv, Distinct
<1>4. Inodes'
  BY <1>0, <1>a, <1>d DEF IInv, Inodes
<1>e. ~short' => pos <= Frames /\ data'[j].packets = SubSeq(Whole, 1, pos)
  <2> SUFFICES ASSUME ~short' PROVE pos <= Frames /\ data'[j].packets = SubSeq(Whole, 1, pos)
    OBVIOUS
  <2>1. pos = 0 /\ data'[j].packets = <<>>
    BY <1>0, <1>c DEF IInv, Copying
  <2> QED
    BY <2>1, PrefixNone, FramesAssumption
<1>5. Copying'
  BY <1>0, <1>a, <1>c, <1>e DEF IInv, Copying
<1>6. Untouched'
  BY <1>0, <1>b, <1>d DEF IInv, Untouched, Content
<1>7. Litter'
  BY <1>0 DEF IInv, Litter
<1>8. Saved'
  BY <1>0, <1>a, <1>b, <1>c DEF IInv, Saved, Content, Phases
<1> QED
  BY <1>1, <1>2, <1>3, <1>4, <1>5, <1>6, <1>7, <1>8 DEF IInv

LEMMA CopyStep ==
  ASSUME IInv, Copy
  PROVE  IInv'
<1> DEFINE j == disk[target]
           p == data[source].packets
<1>0. /\ pc = "copy" /\ pos < Len(p) /\ pos' = pos + 1
      /\ UNCHANGED <<disk, opened, source, url, name, tags, dirty>>
      /\ UNCHANGED <<short, overwritten, crashed, budget, fault>>
      /\ UNCHANGED <<pc, call, target, oc, tempfile_exists>>
  BY DEF Copy, saving, history
<1>a. opened /\ source \in Inode /\ target \in Names /\ j \in Inode
  BY <1>0, UnderWay DEF IInv, Phases
<1>b. \A n \in Name \ overwritten : disk[n] \in Inode /\ disk[n] # j
  BY <1>0, TargetAlone DEF IInv, Untouched
<1>c. pos \in Nat /\ p \in Seq(1 .. Frames) /\ data[j].packets \in Seq(1 .. Frames)
  BY <1>a, WholeInodes DEF IInv, TypeOK
<1>d. p[pos + 1] \in 1 .. Frames
  <2>1. pos + 1 \in 1 .. Len(p)
    BY <1>0, <1>c
  <2> QED
    BY <2>1, <1>c, ElementOfSeq
<1>e. Append(data[j].packets, p[pos + 1]) \in Seq(1 .. Frames)
  BY <1>c, <1>d
<1>f. /\ data' \in [Inode -> [packets : Seq(1 .. Frames), tags : Nat, whole : BOOLEAN]]
      /\ data'[j].packets = Append(data[j].packets, p[pos + 1])
      /\ data'[j].whole = data[j].whole /\ data'[j].tags = data[j].tags
      /\ \A k \in Inode : k # j => data'[k] = data[k]
  <2> DEFINE q == Append(data[j].packets, p[pos + 1])
  <2>1. data' = [data EXCEPT ![j].packets = q]
    BY DEF Copy
  <2>2. q \in Seq(1 .. Frames)
    BY <1>e
  <2> HIDE DEF q
  <2>3. /\ data' \in [Inode -> [packets : Seq(1 .. Frames), tags : Nat, whole : BOOLEAN]]
        /\ data'[j].packets = q
        /\ data'[j].whole = data[j].whole /\ data'[j].tags = data[j].tags
        /\ \A k \in Inode : k # j => data'[k] = data[k]
    BY <1>a, <2>1, <2>2 DEF IInv, TypeOK
  <2> QED
    BY <2>3 DEF q
<1>g. ~short => pos < Frames /\ data'[j].packets = SubSeq(Whole, 1, pos + 1)
  <2> SUFFICES ASSUME ~short PROVE pos < Frames /\ data'[j].packets = SubSeq(Whole, 1, pos + 1)
    OBVIOUS
  <2>1. p = Whole
    BY <1>a DEF IInv, Inodes
  <2>2. data[j].packets = SubSeq(Whole, 1, pos)
    BY <1>0 DEF IInv, Copying
  <2> QED
    BY <1>0, <1>c, <1>f, <2>1, <2>2, PrefixNext, WholePackets
<1>1. TypeOK'
  <2>1. pos' \in Nat
    BY <1>0, <1>c
  <2>2. data' \in [Inode -> [packets : Seq(1 .. Frames), tags : Nat, whole : BOOLEAN]]
    BY <1>f
  <2> HIDE DEF j, p
  <2> QED
    BY <1>0, <2>1, <2>2, ZenonT(30) DEF IInv, TypeOK
<1>2. Phases'
  BY <1>0 DEF IInv, Phases
<1>3. Distinct'
  BY <1>0 DEF IInv, Distinct
<1>4. Inodes'
  BY <1>0, <1>a, <1>f DEF IInv, Inodes, Copying
<1>5. Copying'
  <2>1. pc' = "copy" /\ ~short' => pos' <= Frames /\ data'[j].packets = SubSeq(Whole, 1, pos')
    BY <1>0, <1>c, <1>g, FramesAssumption
  <2> QED
    BY <1>0, <1>a, <1>f, <2>1 DEF IInv, Copying
<1>6. Untouched'
  BY <1>0, <1>b, <1>f DEF IInv, Untouched, Content
<1>7. Litter'
  BY <1>0 DEF IInv, Litter
<1>8. Saved'
  BY <1>0, <1>a, <1>b, <1>f DEF IInv, Saved, Content, Phases
<1> QED
  BY <1>1, <1>2, <1>3, <1>4, <1>5, <1>6, <1>7, <1>8 DEF IInv

LEMMA TrailerStep ==
  ASSUME IInv, Trailer
  PROVE  IInv'
<1> DEFINE j == disk[target]
<1>0. /\ pc = "copy" /\ pos >= Len(data[source].packets) /\ tempfile_exists' = FALSE /\ oc' = FALSE
      /\ IF call = "save" THEN pc' = "rename" /\ UNCHANGED <<call, target>>
                          ELSE pc' = "idle" /\ call' = "none" /\ target' = Null
      /\ UNCHANGED <<disk, opened, source, url, name, pos, tags, dirty>>
      /\ UNCHANGED <<short, overwritten, crashed, budget, fault>>
  BY DEF Trailer, file, history
<1>a. opened /\ source \in Inode /\ target \in Names /\ j \in Inode
  BY <1>0, UnderWay DEF IInv, Phases
<1>b. \A n \in Name \ overwritten : disk[n] \in Inode /\ disk[n] # j
  BY <1>0, TargetAlone DEF IInv, Untouched
<1>c. /\ data' \in [Inode -> [packets : Seq(1 .. Frames), tags : Nat, whole : BOOLEAN]]
      /\ data'[j].packets = data[j].packets /\ data'[j].whole = TRUE /\ data'[j].tags = data[j].tags
      /\ \A k \in Inode : k # j => data'[k] = data[k]
  BY <1>a DEF IInv, TypeOK, Trailer
<1>d. ~short => data'[j].packets = Whole
  <2> SUFFICES ASSUME ~short PROVE data[j].packets = Whole
    BY <1>c
  <2>1. data[source].packets = Whole
    BY <1>a DEF IInv, Inodes
  <2>2. pos = Frames
    <3>1. pos \in Nat /\ pos <= Frames
      BY <1>0 DEF IInv, TypeOK, Copying
    <3>2. Len(data[source].packets) = Frames
      BY <2>1, WholePackets
    <3> QED
      BY <1>0, <3>1, <3>2, FramesAssumption
  <2> QED
    BY <1>0, <2>2, PrefixAll DEF IInv, Copying
<1>1. TypeOK'
  <2>1. data' \in [Inode -> [packets : Seq(1 .. Frames), tags : Nat, whole : BOOLEAN]]
    BY <1>c
  <2> QED
    BY <1>0, <2>1 DEF IInv, TypeOK
<1>2. Phases'
  BY <1>0, <1>a DEF IInv, Phases
<1>3. Distinct'
  BY <1>0 DEF IInv, Distinct
<1>4. Inodes'
  BY <1>0, <1>a, <1>c, <1>d DEF IInv, Inodes
<1>5. Copying'
  BY <1>0, <1>a, <1>c DEF IInv, Copying
<1>6. Untouched'
  BY <1>0, <1>b, <1>c DEF IInv, Untouched, Content
<1>7. Litter'
  <2>1. call = "save_as" => target \in Name
    BY DEF IInv, Phases, TypeOK
  <2> QED
    BY <1>0, <2>1, TempAssumption DEF IInv, TypeOK, Phases, Litter
<1>8. Saved'
  BY <1>0, <1>a, <1>b, <1>c DEF IInv, Saved, Content, Phases
<1> QED
  BY <1>1, <1>2, <1>3, <1>4, <1>5, <1>6, <1>7, <1>8 DEF IInv

LEMMA FailsStep ==
  ASSUME IInv, Fails
  PROVE  IInv'
<1>a. opened /\ target \in Names /\ (target \in Name => target \in overwritten)
  BY UnderWay DEF Fails
<1>b. /\ disk' \in [Names -> Inode \cup {Null}]
      /\ \A x \in Names : disk'[x] = IF x = target /\ tempfile_exists THEN Null ELSE disk[x]
  BY <1>a DEF IInv, TypeOK, Names, Fails, Cleanup
<1>1. TypeOK'
  BY DEF IInv, TypeOK, Fails, Cleanup, file, history
<1>2. Phases'
  BY DEF IInv, Phases, Fails, Cleanup, file, history
<1>3. Distinct'
  BY DEF IInv, Distinct, Names, Fails, Cleanup, file, history
<1>4. Inodes'
  BY DEF IInv, Inodes, Fails, Cleanup, file, history
<1>5. Copying'
  BY DEF IInv, Copying, Fails, Cleanup, file, history
<1>6. Untouched'
  BY <1>a, <1>b DEF IInv, Untouched, Content, Fails, Cleanup, file, history
<1>7. Litter'
  BY <1>a, <1>b DEF IInv, Litter, Phases, Names, Fails, Cleanup, file, history
<1>8. Saved'
  BY <1>a, <1>b DEF IInv, Saved, Content, Phases, Names, Fails, Cleanup, file, history
<1> QED
  BY <1>1, <1>2, <1>3, <1>4, <1>5, <1>6, <1>7, <1>8 DEF IInv

LEMMA RenameStep ==
  ASSUME IInv, Rename
  PROVE  IInv'
<1>1. TypeOK'
  BY DEF IInv, TypeOK, Phases, Rename, history
<1>2. Phases'
  BY DEF IInv, Phases, Rename, history
<1>3. Distinct'
  BY DEF IInv, Distinct, Names, TypeOK, Phases, Rename, history
<1>4. Inodes'
  BY DEF IInv, Inodes, Rename, history
<1>5. Copying'
  BY DEF IInv, Copying, Rename, history
<1>6. Untouched'
  BY TempAssumption DEF IInv, Untouched, Content, TypeOK, Phases, Copying, Rename, history
<1>7. Litter'
  BY TempAssumption DEF IInv, Litter, TypeOK, Phases, Rename, history
<1>8. Saved'
  BY TempAssumption DEF IInv, Saved, Content, TypeOK, Phases, Copying, Rename, history
<1> QED
  BY <1>1, <1>2, <1>3, <1>4, <1>5, <1>6, <1>7, <1>8 DEF IInv

LEMMA RenameFailsStep ==
  ASSUME IInv, RenameFails
  PROVE  IInv'
<1>1. TypeOK'
  BY DEF IInv, TypeOK, RenameFails, disks, file, history
<1>2. Phases'
  BY DEF IInv, Phases, RenameFails, disks, file, history
<1>3. Distinct'
  BY DEF IInv, Distinct, Names, RenameFails, disks, file, history
<1>4. Inodes'
  BY DEF IInv, Inodes, RenameFails, disks, file, history
<1>5. Copying'
  BY DEF IInv, Copying, RenameFails, disks, file, history
<1>6. Untouched'
  BY DEF IInv, Untouched, Content, RenameFails, disks, file, history
<1>7. Litter'
  BY DEF IInv, Litter, RenameFails, disks, file, history
<1>8. Saved'
  BY DEF IInv, Saved, Content, RenameFails, disks, file, history
<1> QED
  BY <1>1, <1>2, <1>3, <1>4, <1>5, <1>6, <1>7, <1>8 DEF IInv

LEMMA CrashStep ==
  ASSUME IInv, Crash
  PROVE  IInv'
<1>1. TypeOK'
  BY DEF IInv, TypeOK, Crash, disks
<1>2. Phases'
  BY DEF IInv, Phases, Crash, disks
<1>3. Distinct'
  BY DEF IInv, Distinct, Names, Crash, disks
<1>4. Inodes'
  BY DEF IInv, Inodes, Crash, disks
<1>5. Copying'
  BY DEF IInv, Copying, Crash, disks
<1>6. Untouched'
  BY DEF IInv, Untouched, Content, Crash, disks
<1>7. Litter'
  BY DEF IInv, Litter, Crash, disks
<1>8. Saved'
  BY DEF IInv, Saved, Content, Crash, disks
<1> QED
  BY <1>1, <1>2, <1>3, <1>4, <1>5, <1>6, <1>7, <1>8 DEF IInv

LEMMA Stutter ==
  ASSUME IInv, UNCHANGED vars
  PROVE  IInv'
<1>1. TypeOK'
  <2>1. TypeOK /\ UNCHANGED <<data, short, pc>>
    BY DEF IInv, vars, disks, saving, history
  <2>2. UNCHANGED <<disk, file, call, target, oc, tempfile_exists, overwritten, crashed, budget, fault>>
    BY DEF vars, disks, saving, history
  <2>3. /\ data' \in [Inode -> [packets : Seq(1 .. Frames), tags : Nat, whole : BOOLEAN]]
        /\ short' \in BOOLEAN /\ pc' \in {"idle", "open", "header", "copy", "rename", "dead"}
    BY <2>1 DEF TypeOK
  <2> QED
    BY <2>1, <2>2, <2>3, StaysTyped
<1>2. Phases'
  BY DEF IInv, Phases, vars, disks, file, saving, history
<1>3. Distinct'
  BY DEF IInv, Distinct, vars, disks, file, saving, history
<1>4. Inodes'
  BY DEF IInv, Inodes, vars, disks, file, saving, history
<1>5. Copying'
  BY DEF IInv, Copying, vars, disks, file, saving, history
<1>6. Untouched'
  BY DEF IInv, Untouched, Content, vars, disks, file, saving, history
<1>7. Litter'
  BY DEF IInv, Litter, vars, disks, file, saving, history
<1>8. Saved'
  BY DEF IInv, Saved, Content, vars, disks, file, saving, history
<1> QED
  BY <1>1, <1>2, <1>3, <1>4, <1>5, <1>6, <1>7, <1>8 DEF IInv

LEMMA Inductive == Spec => []IInv
<1>1. ASSUME IInv, [Next]_vars PROVE IInv'
  <2> USE <1>1
  <2>1. ASSUME NEW n \in Name, NEW hint \in Name, Open(n, hint) PROVE IInv'
    BY <2>1, OpenStep
  <2>2. CASE Close \/ MetadataSet \/ Decode \/ Rewind
    BY <2>2, CloseStep, MetadataSetStep, DecodeStep, RewindStep
  <2>3. ASSUME NEW t \in Temp, Save(t) PROVE IInv'
    BY <2>3, SaveStep
  <2>4. ASSUME NEW n \in Name, SaveAs(n) PROVE IInv'
    BY <2>4, SaveAsStep
  <2>5. CASE OpenOutput \/ Header \/ Copy \/ Trailer
    BY <2>5, OpenOutputStep, HeaderStep, CopyStep, TrailerStep
  <2>6. CASE Fails \/ Rename \/ RenameFails \/ Crash
    BY <2>6, FailsStep, RenameStep, RenameFailsStep, CrashStep
  <2>7. CASE UNCHANGED vars
    BY <2>7, Stutter
  <2> QED
    BY <2>1, <2>2, <2>3, <2>4, <2>5, <2>6, <2>7 DEF Next
<1> QED
  BY <1>1, Initially, PTL DEF Spec

--------------------------------------------------------------------------------
\* groove_file_save writes beside the original and renames last: whatever fails
\* on the way, and wherever the process dies, a name that was never given to
\* groove_file_save_as leads to a file in order.
THEOREM FileSurvives == Spec => []OriginalSurvives
<1>1. IInv => OriginalSurvives
  <2> SUFFICES ASSUME IInv, NEW n \in Name \ overwritten
               PROVE  disk[n] # Null /\ Content(n).whole /\ (~short => Content(n).packets = Whole)
    BY DEF OriginalSurvives, IInv
  <2>1. disk[n] \in Inode /\ Content(n).whole
    BY DEF IInv, TypeOK, Untouched
  <2> QED
    BY <2>1, TempAssumption DEF IInv, Inodes, Content
<1> QED
  BY <1>1, Inductive, PTL

\* cleanup_save takes the temporary file of a save that failed.
THEOREM LitterSafe == Spec => []NoLitter
<1>1. IInv => NoLitter
  BY DEF IInv, Litter, NoLitter
<1> QED
  BY <1>1, Inductive, PTL

\* dirty goes down only when the tags are at the name the file was opened by.
THEOREM SavedSafe == Spec => []CleanMeansSaved
<1>1. IInv => CleanMeansSaved
  BY DEF IInv, Saved, CleanMeansSaved
<1> QED
  BY <1>1, Inductive, PTL

================================================================================
