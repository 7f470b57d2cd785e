------------------------------- MODULE GrooveFile -------------------------------
(***************************************************************************)
(* src/src/file.c: opening a file, changing its tags, and writing it back.  *)
(* groove_file_save writes a temporary file beside the original and renames *)
(* it over it, so that a failure or a crash half-way leaves the original.   *)
(*                                                                         *)
(* The file system is external: names lead to inodes, an open file keeps    *)
(* its inode whatever becomes of the name, opening for writing truncates,   *)
(* and a rename is atomic.  What a process has written survives its crash;  *)
(* losing the machine's power is another matter, and file.c never syncs.    *)
(***************************************************************************)
EXTENDS Naturals, Sequences

CONSTANTS
  Name,      \* the names of the files of the application
  Temp,      \* the names groove_create_rand_name makes up
  Inode, Null,
  Frames,    \* the packets of a file
  Budget     \* bound: how many calls the application makes

ASSUME TempAssumption == Temp \cap Name = {} /\ Null \notin Inode
ASSUME FramesAssumption == Frames \in Nat /\ Budget \in Nat

VARIABLES
  disk, data,                   \* by name, the inode; by inode, what it holds
  opened, source, url,          \* the file: its inode, and f->ic->url
  name,                         \* history: the name it was opened by
  pos,                          \* packets that av_read_frame has returned
  tags, dirty,                  \* f->ic->metadata, as a version of it
  pc, call, target,             \* where a save is, of which call, f->oc->url
  oc, tempfile_exists,
  short,      \* history: a copy began with packets read before, shared them with a
              \* decoder, or was written over its own source; or a file was
              \* opened that an earlier save had cut short
  overwritten,\* history: the names that groove_file_save_as was given
  crashed,    \* history
  budget, fault

disks   == <<disk, data>>
file    == <<opened, source, url, name, pos, tags, dirty>>
saving  == <<pc, call, target, oc, tempfile_exists>>
history == <<short, overwritten, crashed>>
vars    == <<disks, file, saving, history, budget, fault>>

Whole == [k \in 1 .. Frames |-> k]
Empty == [packets |-> <<>>, tags |-> 0, whole |-> FALSE]

\* Every name leads to a file that is in order.
Init ==
  /\ disk \in [Name \cup Temp -> Inode \cup {Null}]
  /\ \A t \in Temp : disk[t] = Null
  /\ \A n \in Name : disk[n] # Null
  /\ \A n, m \in Name : disk[n] = disk[m] => n = m
  /\ data = [i \in Inode |-> [packets |-> Whole, tags |-> 0, whole |-> TRUE]]
  /\ opened = FALSE /\ source = Null /\ url = Null /\ name = Null
  /\ pos = 0 /\ tags = 0 /\ dirty = FALSE
  /\ pc = "idle" /\ call = "none" /\ target = Null /\ oc = FALSE /\ tempfile_exists = FALSE
  /\ short = FALSE /\ overwritten = {} /\ crashed = FALSE
  /\ budget = Budget /\ fault = "none"

May   == pc = "idle" /\ fault = "none" /\ budget > 0
Spend == budget' = budget - 1

--------------------------------------------------------------------------------
(* groove_file_open and the calls on an open file.                          *)

\* The hint is the name the file is saved to.  A file without audio is refused;
\* of one without a trailer, ffmpeg may make what it can.
Open(n, hint) ==
  /\ May /\ Spend
  /\ ~opened
  /\ disk[n] # Null /\ data[disk[n]].packets # <<>>
  /\ opened' = TRUE
  /\ source' = disk[n] /\ url' = hint /\ name' = n
  /\ pos' = 0 /\ tags' = data[disk[n]].tags /\ dirty' = FALSE
  /\ short' = (short \/ ~data[disk[n]].whole)
  /\ UNCHANGED <<disks, saving, overwritten, crashed, fault>>

Close ==
  /\ pc = "idle" /\ opened
  /\ opened' = FALSE /\ source' = Null /\ url' = Null /\ name' = Null
  /\ pos' = 0 /\ tags' = 0 /\ dirty' = FALSE
  /\ UNCHANGED <<disks, saving, history, budget, fault>>

MetadataSet ==
  /\ May /\ Spend
  /\ opened
  /\ dirty' = TRUE
  /\ tags' = tags + 1
  /\ UNCHANGED <<disks, opened, source, url, name, pos, saving, history, fault>>

\* The decode thread of a playlist that has the file: it takes no lock that a
\* save would take.
Decode ==
  /\ fault = "none"
  /\ opened
  /\ pos < Len(data[source].packets)
  /\ pos' = pos + 1
  /\ short' = (short \/ pc = "copy")
  /\ UNCHANGED <<disks, opened, source, url, name, tags, dirty, saving, overwritten, crashed, budget, fault>>

\* A seek, carried out by the same thread.
Rewind ==
  /\ fault = "none" /\ budget > 0 /\ Spend
  /\ opened
  /\ pos' = 0
  /\ short' = (short \/ pc = "copy")
  /\ UNCHANGED <<disks, opened, source, url, name, tags, dirty, saving, overwritten, crashed, fault>>

--------------------------------------------------------------------------------
(* groove_file_save and groove_file_save_as.                                *)

\* Mutant of SaveName: the file is written in place.
SaveNameInPlace(t) == url

\* What groove_file_save writes to.
SaveName(t) == t

\* The name made up is free, by chance.
Save(t) ==
  /\ May /\ Spend
  /\ opened /\ dirty
  /\ disk[t] = Null
  /\ pc' = "open" /\ call' = "save" /\ target' = SaveName(t)
  /\ UNCHANGED <<disks, file, oc, tempfile_exists, history, fault>>

SaveAs(n) ==
  /\ May /\ Spend
  /\ opened
  /\ pc' = "open" /\ call' = "save_as" /\ target' = n
  /\ overwritten' = overwritten \cup {n}
  /\ UNCHANGED <<disks, file, oc, tempfile_exists, short, crashed, fault>>

\* avio_open creates the file or truncates the one there is.
OpenOutput ==
  /\ pc = "open"
  /\ \E i \in Inode :
       /\ IF disk[target] # Null THEN i = disk[target]
          ELSE i # source /\ \A n \in DOMAIN disk : disk[n] # i
       /\ disk' = [disk EXCEPT ![target] = i]
       /\ data' = [data EXCEPT ![i] = Empty]
       /\ short' = (short \/ i = source)
  /\ oc' = TRUE /\ tempfile_exists' = TRUE
  /\ pc' = "header"
  /\ UNCHANGED <<file, call, target, overwritten, crashed, budget, fault>>

\* Mutant of Header: the tags are copied as they were when the file was opened.
HeaderOldTags ==
  /\ pc = "header"
  /\ data' = [data EXCEPT ![disk[target]].tags = data[source].tags]
  /\ pc' = "copy"
  /\ short' = (short \/ pos # 0)
  /\ UNCHANGED <<disk, file, call, target, oc, tempfile_exists, overwritten, crashed, budget, fault>>

\* The tags go into the header.  The copy begins where the last reader of the
\* packets left off.
Header ==
  /\ pc = "header"
  /\ data' = [data EXCEPT ![disk[target]].tags = tags]
  /\ pc' = "copy"
  /\ short' = (short \/ pos # 0)
  /\ UNCHANGED <<disk, file, call, target, oc, tempfile_exists, overwritten, crashed, budget, fault>>

Copy ==
  /\ pc = "copy"
  /\ pos < Len(data[source].packets)
  /\ data' = [data EXCEPT ![disk[target]].packets = Append(@, data[source].packets[pos + 1])]
  /\ pos' = pos + 1
  /\ UNCHANGED <<disk, opened, source, url, name, tags, dirty, saving, history, budget, fault>>

\* cleanup_save: the temporary file goes if it is still there.
Cleanup ==
  /\ disk' = IF tempfile_exists THEN [disk EXCEPT ![target] = Null] ELSE disk
  /\ tempfile_exists' = FALSE /\ oc' = FALSE

\* After the last packet: tempfile_exists goes down before the cleanup.
Trailer ==
  /\ pc = "copy"
  /\ pos >= Len(data[source].packets)
  /\ data' = [data EXCEPT ![disk[target]].whole = TRUE]
  /\ tempfile_exists' = FALSE /\ oc' = FALSE
  /\ IF call = "save" THEN pc' = "rename" /\ UNCHANGED <<call, target>>
                      ELSE pc' = "idle" /\ call' = "none" /\ target' = Null
  /\ UNCHANGED <<disk, file, history, budget, fault>>

\* Mutant of Fails: the temporary file is forgotten.
FailsUnclean ==
  /\ pc \in {"open", "header", "copy"}
  /\ oc' = FALSE /\ tempfile_exists' = FALSE
  /\ pc' = "idle" /\ call' = "none" /\ target' = Null
  /\ UNCHANGED <<disks, file, history, budget, fault>>

\* No memory, no such format, or an error in opening, reading or writing.
Fails ==
  /\ pc \in {"open", "header", "copy"}
  /\ Cleanup
  /\ pc' = "idle" /\ call' = "none" /\ target' = Null
  /\ UNCHANGED <<data, file, history, budget, fault>>

Rename ==
  /\ pc = "rename"
  /\ disk' = [disk EXCEPT ![url] = disk[target], ![target] = Null]
  /\ dirty' = FALSE
  /\ pc' = "idle" /\ call' = "none" /\ target' = Null
  /\ UNCHANGED <<data, opened, source, url, name, pos, tags, oc, tempfile_exists, history, budget, fault>>

\* tempfile_exists goes up again, but f->oc is gone: cleanup_save reads its url
\* through NULL.
RenameFails ==
  /\ pc = "rename"
  /\ tempfile_exists' = TRUE
  /\ fault' = "cleanup_save without oc"
  /\ pc' = "dead"
  /\ UNCHANGED <<disks, file, call, target, oc, history, budget>>

\* The process ends at any moment, and may be started again.
Crash ==
  /\ opened
  /\ crashed' = TRUE
  /\ opened' = FALSE /\ source' = Null /\ url' = Null /\ name' = Null
  /\ pos' = 0 /\ tags' = 0 /\ dirty' = FALSE
  /\ pc' = "idle" /\ call' = "none" /\ target' = Null /\ oc' = FALSE /\ tempfile_exists' = FALSE
  /\ fault' = "none"
  /\ UNCHANGED <<disks, short, overwritten, budget>>

Next ==
  \/ \E n, hint \in Name : Open(n, hint)
  \/ Close \/ MetadataSet \/ Decode \/ Rewind
  \/ \E t \in Temp : Save(t)
  \/ \E n \in Name : SaveAs(n)
  \/ OpenOutput \/ Header \/ Copy \/ Trailer \/ Fails \/ Rename \/ RenameFails
  \/ Crash

Spec == Init /\ [][Next]_vars

--------------------------------------------------------------------------------
TypeOK ==
  /\ disk \in [Name \cup Temp -> Inode \cup {Null}]
  /\ data \in [Inode -> [packets : Seq(1 .. Frames), tags : Nat, whole : BOOLEAN]]
  /\ opened \in BOOLEAN /\ dirty \in BOOLEAN /\ short \in BOOLEAN /\ crashed \in BOOLEAN
  /\ source \in Inode \cup {Null} /\ url \in Name \cup {Null} /\ name \in Name \cup {Null}
  /\ target \in Name \cup Temp \cup {Null}
  /\ pos \in Nat /\ tags \in Nat /\ budget \in 0 .. Budget
  /\ pc \in {"idle", "open", "header", "copy", "rename", "dead"}
  /\ call \in {"none", "save", "save_as"}
  /\ oc \in BOOLEAN /\ tempfile_exists \in BOOLEAN
  /\ overwritten \subseteq Name
  /\ fault \in {"none", "cleanup_save without oc"}

\* The file that a name leads to.
Content(n) == data[disk[n]]

\* Whatever save fails, and wherever the process dies, a name that the
\* application never gave to groove_file_save_as leads to a file in order: it
\* has its trailer, and, unless some copy began part-way or in a file that was
\* cut short, all of the packets.
OriginalSurvives ==
  /\ TypeOK
  /\ \A n \in Name \ overwritten :
       /\ disk[n] # Null
       /\ Content(n).whole
       /\ ~short => Content(n).packets = Whole

\* A save that fails takes its temporary file with it: between two calls of a
\* process that never died there is none.
NoLitter == pc = "idle" /\ ~crashed => \A t \in Temp : disk[t] = Null

\* A file that is not dirty is saved: what is at its name has the tags that the
\* application sees.
CleanMeansSaved ==
  opened /\ ~dirty /\ pc = "idle" /\ url = name /\ url \notin overwritten =>
    disk[url] # Null /\ Content(url).tags = tags

================================================================================
