------------------------------ MODULE MediaLibrary ------------------------------
(***************************************************************************)
(* Uploaded files and the columns that refer to them: uploads write the    *)
(* file first and the row later, deletions the row first and the file      *)
(* later, the branding forms rewrite the whole row they loaded, and a      *)
(* SuperAdmin deletes the files a storage scan found nobody refers to      *)
(* (config/files.py, governance/media_service.py, media_views.py).         *)
(***************************************************************************)
EXTENDS Naturals, FiniteSets

CONSTANTS
    File, DirOf,          \* storage names, and the directory of each
    Worker,               \* requests that upload, delete or edit the branding
    None,
    MaxJobs, MaxScans, MaxDeletes    \* bounds: requests of workers, storage scans, deletions

MediaConstants ==
    /\ DirOf \in [File -> {"message", "proof", "branding"}] /\ IsFiniteSet(File)
    /\ {MaxJobs, MaxScans, MaxDeletes} \subseteq Nat /\ None \notin File

VARIABLES
    ref,                  \* the file each column refers to, as committed
    disk,                 \* the files in the storage
    job,                  \* the worker's step, its file, and the branding row it loaded
    scan,                 \* the scan under way and the cached result
    req,                  \* the deletion request: its names, where it is, and its BulkResult
    jobs, scans, deletes,
    lost,                 \* history: files of which the code may lose sight, see MissingExplained
    left                  \* history: files whose deletion or whose upload was given up, or which were replaced

vars == <<ref, disk, job, scan, req, jobs, scans, deletes, lost, left>>
history == <<lost, left>>

\* A message's attachment, an invoice's payment proof, SiteBranding.logo (or favicon) and
\* SiteBranding.custom_logo_light (or _dark).
Slot == {"message", "proof", "logo", "custom"}
Branding == {"logo", "custom"}

\* upload_to
Dir(s) == IF s \in Branding THEN "branding" ELSE s

FileOrNone == File \cup {None}
Result == {"deleted", "referenced", "missing", "failed"}

TypeOK ==
    /\ ref \in [Slot -> FileOrNone] /\ disk \subseteq File
    /\ job \in [Worker -> [pc : {"idle", "stored", "unlink", "form", "store", "save"}, slot : Slot,
                           file : FileOrNone, row : [Branding -> FileOrNone]]]
    /\ scan \in [pc : {"idle", "walk"}, names : SUBSET File, cached : BOOLEAN, orphans : SUBSET File]
    /\ req.pc \in {"idle", "next", "exists", "delete"} /\ req.todo \subseteq File
    /\ req.counts \in [Result -> 0 .. Cardinality(File)]
    /\ jobs \in 0 .. MaxJobs /\ scans \in 0 .. MaxScans /\ deletes \in 0 .. MaxDeletes
    /\ lost \subseteq File /\ left \subseteq File
    \* "account for every id": each is pending, in hand or counted once.
    /\ req.selected = Cardinality(req.todo) + (IF req.pc \in {"exists", "delete"} THEN 1 ELSE 0)
                      + req.counts["deleted"] + req.counts["referenced"]
                      + req.counts["missing"] + req.counts["failed"]

NoRow == [b \in Branding |-> None]
Idle == [pc |-> "idle", slot |-> "message", file |-> None, row |-> NoRow]
NoCounts == [r \in Result |-> 0]

Init ==
    /\ ref = [s \in Slot |-> None] /\ disk = {}
    /\ job = [w \in Worker |-> Idle]
    /\ scan = [pc |-> "idle", names |-> {}, cached |-> FALSE, orphans |-> {}]
    /\ req = [pc |-> "idle", todo |-> {}, name |-> None, selected |-> 0, counts |-> NoCounts]
    /\ jobs = 0 /\ scans = 0 /\ deletes = 0
    /\ lost = {} /\ left = {}

-------------------------------------------------------------------------------
Step(w, pc) == job' = [job EXCEPT ![w].pc = pc]
Begin(w) == job[w].pc = "idle" /\ jobs < MaxJobs /\ jobs' = jobs + 1
End(w) == job' = [job EXCEPT ![w] = Idle]

\* A column still refers to a file of this name, or someone is to delete it or to save it.
Pending(f) == \E w \in Worker : job[w].file = f \/ \E b \in Branding : job[w].row[b] = f
Held(f) == Pending(f) \/ f = req.name \/ \E s \in Slot : ref[s] = f

\* The storage takes a name no file has: one that was deleted may come back.
Written(f, s) ==
    /\ f \notin disk /\ DirOf[f] = Dir(s)
    /\ disk' = disk \cup {f} /\ left' = left \ {f}
    /\ lost' = IF Held(f) THEN lost \cup {f} ELSE lost \ {f}

\* A row is saved that has a file to come: the file is written on the way to the INSERT or
\* UPDATE, which commits with the request's transaction.
Store(w) ==
    /\ Begin(w)
    /\ \E s \in Slot \ Branding, f \in File :
          /\ s = "message" => ref[s] = None
          /\ Written(f, s)
          /\ job' = [job EXCEPT ![w] = [Idle EXCEPT !.pc = "stored", !.slot = s, !.file = f]]
    /\ UNCHANGED <<ref, scan, req, scans, deletes>>

\* The file a row no longer refers to stays in the storage.
Replaced(old, new) == left' = IF old # new /\ old # None THEN left \cup {old} ELSE left

Commit(w) ==
    /\ job[w].pc = "stored" /\ (job[w].slot = "message" => ref["message"] = None)
    /\ ref' = [ref EXCEPT ![job[w].slot] = job[w].file]
    /\ Replaced(ref[job[w].slot], job[w].file)
    /\ End(w)
    /\ UNCHANGED <<disk, scan, req, jobs, scans, deletes, lost>>

\* A rollback, an exception or a killed process, of whatever the worker was doing.
Die(w) ==
    /\ job[w].pc # "idle"
    /\ left' = IF job[w].file # None THEN left \cup {job[w].file} ELSE left
    /\ End(w)
    /\ UNCHANGED <<ref, disk, scan, req, jobs, scans, deletes, lost>>

\* The message or the invoice is deleted; its file goes once that has committed.
DeleteRow(w) ==
    /\ Begin(w)
    /\ \E s \in Slot \ Branding :
          /\ ref[s] # None
          /\ ref' = [ref EXCEPT ![s] = None]
          /\ job' = [job EXCEPT ![w] = [Idle EXCEPT !.pc = "unlink", !.file = ref[s]]]
    /\ UNCHANGED <<disk, scan, req, scans, deletes, history>>

\* Mutant: before there was config/files.py.
ForgetFile(w) ==
    /\ job[w].pc = "unlink" /\ End(w)
    /\ UNCHANGED <<ref, disk, scan, req, jobs, scans, deletes, history>>

RemoveFile(w) ==
    /\ job[w].pc = "unlink"
    /\ disk' = disk \ {job[w].file} /\ End(w)
    /\ UNCHANGED <<ref, scan, req, jobs, scans, deletes, history>>

-------------------------------------------------------------------------------
\* BrandingSettingsView.post, brand_theme_apply and brand_theme_reset_custom.
LoadForm(w) ==
    /\ Begin(w)
    /\ job' = [job EXCEPT ![w] = [Idle EXCEPT !.pc = "form", !.row = [b \in Branding |-> ref[b]]]]
    /\ UNCHANGED <<ref, disk, scan, req, scans, deletes, history>>

\* Only names, colours or a preset are changed.
ChangeText(w) ==
    /\ job[w].pc = "form" /\ Step(w, "save")
    /\ UNCHANGED <<ref, disk, scan, req, jobs, scans, deletes, history>>

\* Removing a logo, and replacing a custom one, deletes the old file before the row is saved.
RemoveLogo(w) ==
    /\ job[w].pc = "form"
    /\ \E b \in Branding :
          LET old == job[w].row[b] IN
          /\ old # None
          /\ disk' = disk \ {old} /\ lost' = lost \cup {old}
          /\ \E next \in {"save"} \cup (IF b = "custom" THEN {"store"} ELSE {}) :
                job' = [job EXCEPT ![w].pc = next, ![w].slot = b, ![w].row[b] = None]
    /\ UNCHANGED <<ref, scan, req, jobs, scans, deletes, left>>

\* SiteBranding.logo is replaced without deleting the old file.
ChooseLogo(w) ==
    /\ job[w].pc = "form"
    /\ \E b \in Branding :
          /\ b = "custom" => job[w].row[b] = None
          /\ job' = [job EXCEPT ![w].pc = "store", ![w].slot = b]
    /\ UNCHANGED <<ref, disk, scan, req, jobs, scans, deletes, history>>

StoreLogo(w) ==
    /\ job[w].pc = "store"
    /\ \E f \in File :
          /\ Written(f, job[w].slot)
          /\ job' = [job EXCEPT ![w].pc = "save", ![w].file = f, ![w].row[job[w].slot] = f]
    /\ UNCHANGED <<ref, scan, req, jobs, scans, deletes>>

\* row.save(): every column, the ones that were only loaded too.
SaveRow(w) ==
    /\ job[w].pc = "save"
    /\ ref' = [s \in Slot |-> IF s \in Branding THEN job[w].row[s] ELSE ref[s]]
    /\ left' = left \cup {ref[b] : b \in {c \in Branding : ref[c] \notin {None, job[w].row[c]}}}
    /\ End(w)
    /\ UNCHANGED <<disk, scan, req, jobs, scans, deletes, lost>>

-------------------------------------------------------------------------------
\* Every name the scan and the deletion ask for: the custom logos are not among them.
Asked == {"message", "proof", "logo"}

ReferencedNames == {ref[s] : s \in Asked} \ {None}

\* run_scan: first the references, then the walk of the storage.
StartScan ==
    /\ scan.pc = "idle" /\ scans < MaxScans
    /\ scans' = scans + 1
    /\ scan' = [scan EXCEPT !.pc = "walk", !.names = ReferencedNames]
    /\ UNCHANGED <<ref, disk, job, req, jobs, deletes, history>>

Walk ==
    /\ scan.pc = "walk"
    /\ scan' = [pc |-> "idle", names |-> {}, cached |-> TRUE, orphans |-> disk \ scan.names]
    /\ UNCHANGED <<ref, disk, job, req, jobs, scans, deletes, history>>

\* Only what the cached scan flagged has a name, and that scan may be ten minutes old.
Begun(names) ==
    /\ req.pc = "idle" /\ deletes < MaxDeletes /\ scan.cached
    /\ req' = [pc |-> "next", todo |-> names, name |-> None, selected |-> Cardinality(names), counts |-> NoCounts]
    /\ deletes' = deletes + 1
    /\ UNCHANGED <<ref, disk, job, scan, jobs, scans, history>>

\* media_delete_orphan and media_bulk_delete
DeleteOne == \E f \in scan.orphans : Begun({f})
DeleteMany == \E names \in SUBSET scan.orphans : Cardinality(names) > 1 /\ Begun(names)

Counted(r) == [req EXCEPT !.pc = "next", !.name = None, !.counts[r] = @ + 1]

\* Mutant: the scan is believed.
NotAsked(f) == FALSE

IsReferenced(f) == f \in ReferencedNames

\* delete_orphan: is_referenced, now.
TakeName ==
    /\ req.pc = "next"
    /\ \E f \in req.todo :
          /\ req' = IF IsReferenced(f)
                    THEN [Counted("referenced") EXCEPT !.todo = @ \ {f}]
                    ELSE [req EXCEPT !.pc = "exists", !.todo = @ \ {f}, !.name = f]
          /\ lost' = IF ~IsReferenced(f) /\ Pending(f) THEN lost \cup {f} ELSE lost
    /\ UNCHANGED <<ref, disk, job, scan, jobs, scans, deletes, left>>

Exists ==
    /\ req.pc = "exists"
    /\ req' = IF req.name \in disk THEN [req EXCEPT !.pc = "delete"] ELSE Counted("missing")
    /\ UNCHANGED <<ref, disk, job, scan, jobs, scans, deletes, history>>

\* Mutant: a file that is deleted stays counted as selected only.
DeleteUncounted ==
    /\ req.pc = "delete"
    /\ disk' = disk \ {req.name} /\ req' = [req EXCEPT !.pc = "next", !.name = None]
    /\ UNCHANGED <<ref, job, scan, jobs, scans, deletes, history>>

\* The storage may have failed instead.
Delete ==
    /\ req.pc = "delete"
    /\ \/ disk' = disk \ {req.name} /\ req' = Counted("deleted")
       \/ disk' = disk /\ req' = Counted("failed")
    /\ UNCHANGED <<ref, job, scan, jobs, scans, deletes, history>>

\* The request ends: what was deleted makes the cached scan obsolete.
EndDelete ==
    /\ req.pc = "next" /\ req.todo = {}
    /\ req' = [req EXCEPT !.pc = "idle", !.name = None, !.selected = 0, !.counts = NoCounts]
    /\ scan' = IF req.counts["deleted"] > 0 THEN [scan EXCEPT !.cached = FALSE, !.orphans = {}] ELSE scan
    /\ UNCHANGED <<ref, disk, job, jobs, scans, deletes, history>>

Work(w) ==
    \/ Store(w) \/ Commit(w) \/ Die(w) \/ DeleteRow(w) \/ RemoveFile(w)
    \/ LoadForm(w) \/ ChangeText(w) \/ RemoveLogo(w) \/ ChooseLogo(w) \/ StoreLogo(w) \/ SaveRow(w)

Next ==
    \/ \E w \in Worker : Work(w)
    \/ StartScan \/ Walk \/ DeleteOne \/ DeleteMany \/ TakeName \/ Exists \/ Delete \/ EndDelete

Spec == Init /\ [][Next]_vars

-------------------------------------------------------------------------------
\* A column whose file is gone: the deletion was checked before the row was saved; or a
\* branding form removed the file and did not get to save the row, or another form saved the
\* row back; or the name went to a new file while the old one was still referred to or to be
\* deleted.  Nothing else loses a file.
MissingExplained == \A s \in Slot \ {"custom"} : ref[s] # None /\ ref[s] \notin disk => ref[s] \in lost

\* "Fresh, exact check against every place a file can be referenced from": the same of the
\* custom logos.
CustomLogosKept == ref["custom"] # None /\ ref["custom"] \notin disk => ref["custom"] \in lost

\* A file nobody refers to was replaced, or its upload or its deletion was given up: deleting
\* messages and invoices leaves nothing behind.
LeftoversExplained ==
    \A f \in disk \ ({ref[s] : s \in Slot} \cup {job[w].file : w \in Worker}) : f \in left
===============================================================================
