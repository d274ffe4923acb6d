----------------------------- MODULE ModelCache -----------------------------
(***************************************************************************)
(* The cache of downloaded models (src/crispasr_cache.cpp):                *)
(* ensure_cached_file looks for a file of some name in the directories     *)
(* where users keep models, downloads it into the first one when none      *)
(* will do, and writes beside it, in a `.src` sidecar, the url it is from, *)
(* since files of different urls may have one name.  Several processes     *)
(* use the directories at once, and any of them may die at any step.       *)
(*                                                                         *)
(* The name is fixed; what a file holds is the url whose bytes it has, in  *)
(* full, or Cut when it has only some, or ByHand when somebody put it      *)
(* there.  The fetchers are the programs curl and wget, which report a     *)
(* transfer that breaks off.                                               *)
(***************************************************************************)
EXTENDS Integers

CONSTANTS Processes,   \* the processes, each with one request at a time
          Urls,        \* the urls with this file name
          Dirs,        \* the number of directories searched; the first is the cache's own
          Fetchers,    \* the number of programs fetch_download tries
          Absent,      \* no file, or an empty one
          ByHand,      \* a file that was not downloaded
          Cut          \* a file that is only a part of what was to be written

ASSUME CacheAssumption ==
  /\ Dirs \in Nat \ {0} /\ Fetchers \in Nat \ {0}
  /\ Urls # {}
  /\ Absent # ByHand /\ Absent # Cut /\ ByHand # Cut
  /\ {Absent, ByHand, Cut} \cap Urls = {}

VARIABLES
  file,      \* the file in each directory
  src,       \* its sidecar
  temp,      \* the temporary file of each download
  pc,        \* where each process is
  url,       \* the url it wants
  at         \* the directory it looks in, or the fetcher it runs

own == <<pc, url, at>>
vars == <<file, src, temp, own>>

Point == {"idle", "probe", "check", "hit", "fetch", "receive", "fetched", "record"}

\* Downloaded files with their sidecars, and files put there by hand, which have none.
Init ==
  /\ file \in [1..Dirs -> Urls \cup {Absent, ByHand}]
  /\ src = [d \in 1..Dirs |-> IF file[d] \in Urls THEN file[d] ELSE Absent]
  /\ temp = [p \in Processes |-> Absent]
  /\ pc = [p \in Processes |-> "idle"]
  /\ url = [p \in Processes |-> CHOOSE u \in Urls : TRUE]
  /\ at = [p \in Processes |-> 1]

Go(p, from, to) ==
  /\ pc[p] = from
  /\ pc' = [pc EXCEPT ![p] = to]

-----------------------------------------------------------------------------
(* ensure_cached_file: the search.                                          *)

Ask(p) ==
  /\ Go(p, "idle", "probe")
  /\ \E u \in Urls : url' = [url EXCEPT ![p] = u]
  /\ at' = [at EXCEPT ![p] = 1]
  /\ UNCHANGED <<file, src, temp>>

\* On to the next directory; behind the last one, to the download.
NextDir(p, from) ==
  /\ IF at[p] < Dirs
     THEN Go(p, from, "probe") /\ at' = [at EXCEPT ![p] = @ + 1]
     ELSE Go(p, from, "fetch") /\ at' = [at EXCEPT ![p] = 1]
  /\ UNCHANGED <<file, src, temp, url>>

\* file_present.
ProbeNone(p) == file[at[p]] = Absent /\ NextDir(p, "probe")

Probe(p) ==
  /\ Go(p, "probe", "check")
  /\ file[at[p]] # Absent
  /\ UNCHANGED <<file, src, temp, url, at>>

\* The sidecar names the url, or there is none: the path is returned.
Hit(p) ==
  /\ Go(p, "check", "hit")
  /\ src[at[p]] \in {url[p], Absent}
  /\ UNCHANGED <<file, src, temp, url, at>>

OtherSource(p) == src[at[p]] \notin {url[p], Absent} /\ NextDir(p, "check")

Return(p) ==
  /\ Go(p, "hit", "idle")
  /\ UNCHANGED <<file, src, temp, url, at>>

-----------------------------------------------------------------------------
(* fetch: the download.                                                     *)

\* Mutant: every download of the file has one temporary name.
OneTempFile(p) == CHOOSE q \in Processes : TRUE

\* unique_temp_path: pid and count make the name the process's own.
TempFile(p) == p

\* A fetcher opens the temporary file, which empties it.
Begin(p) ==
  /\ Go(p, "fetch", "receive")
  /\ temp' = [temp EXCEPT ![TempFile(p)] = Absent]
  /\ UNCHANGED <<file, src, url, at>>

Receive(p) ==
  /\ Go(p, "receive", "receive")
  /\ temp' = [temp EXCEPT ![TempFile(p)] = Cut]
  /\ UNCHANGED <<file, src, url, at>>

\* The last of the bytes has come.
Complete(p) ==
  /\ Go(p, "receive", "fetched")
  /\ temp' = [temp EXCEPT ![TempFile(p)] = url[p]]
  /\ UNCHANGED <<file, src, url, at>>

\* Mutant: the last fetcher is tried for ever.
TryAgain(p) ==
  /\ Go(p, "receive", "fetch")
  /\ at' = [at EXCEPT ![p] = IF @ < Fetchers THEN @ + 1 ELSE @]
  /\ UNCHANGED <<file, src, temp, url>>

\* The transfer breaks off, or brings nothing: the next fetcher is tried.
Break(p) ==
  /\ Go(p, "receive", "fetch")
  /\ at[p] < Fetchers
  /\ at' = [at EXCEPT ![p] = @ + 1]
  /\ UNCHANGED <<file, src, temp, url>>

\* The temporary file is removed, and no path is returned.
GiveUp(p, from) ==
  /\ Go(p, from, "idle")
  /\ temp' = [temp EXCEPT ![TempFile(p)] = Absent]
  /\ UNCHANGED <<file, src, url, at>>

BreakLast(p) == at[p] = Fetchers /\ GiveUp(p, "receive")

RenameFails(p) == GiveUp(p, "fetched")

\* atomic_rename puts what was received in the place of the cache's file.
Publish(p) ==
  /\ Go(p, "fetched", "record")
  /\ temp[TempFile(p)] # Absent
  /\ file' = [file EXCEPT ![1] = temp[TempFile(p)]]
  /\ temp' = [temp EXCEPT ![TempFile(p)] = Absent]
  /\ UNCHANGED <<src, url, at>>

\* write_text_file writes the sidecar, and the path is returned.
Record(p) ==
  /\ Go(p, "record", "idle")
  /\ src' = [src EXCEPT ![1] = url[p]]
  /\ UNCHANGED <<file, temp, url, at>>

\* It cannot be written: the old one stays, or an empty one or a part of it takes its place.
\* The path is returned all the same.
RecordFails(p) ==
  /\ Go(p, "record", "idle")
  /\ \E s \in {src[1], Absent, Cut} : src' = [src EXCEPT ![1] = s]
  /\ UNCHANGED <<file, temp, url, at>>

\* The process dies and is started again.  Its temporary file stays, but nobody reads it.
Crash(p) ==
  /\ pc[p] # "idle"
  /\ pc' = [pc EXCEPT ![p] = "idle"]
  /\ UNCHANGED <<file, src, temp, url, at>>

-----------------------------------------------------------------------------
Step(p) ==
  \/ ProbeNone(p) \/ Probe(p) \/ Hit(p) \/ OtherSource(p) \/ Return(p)
  \/ Begin(p) \/ Complete(p) \/ Break(p) \/ BreakLast(p)
  \/ RenameFails(p) \/ Publish(p) \/ Record(p) \/ RecordFails(p)

Next == \E p \in Processes : Ask(p) \/ Step(p) \/ Receive(p) \/ Crash(p)

(***************************************************************************)
(* A process that asks goes on, and a fetcher comes to an end, one way or  *)
(* the other.                                                              *)
(***************************************************************************)
Spec == Init /\ [][Next]_vars /\ \A p \in Processes : WF_vars(Step(p))

-----------------------------------------------------------------------------
Contents == Urls \cup {Absent, ByHand, Cut}

CacheTypeOK ==
  /\ file \in [1..Dirs -> Contents]
  /\ src \in [1..Dirs -> Urls \cup {Absent, Cut}]
  /\ temp \in [Processes -> Contents]
  /\ pc \in [Processes -> Point]
  /\ url \in [Processes -> Urls]
  /\ at \in [Processes -> 1..(IF Dirs < Fetchers THEN Fetchers ELSE Dirs)]

\* Whoever dies, breaks off, or downloads beside somebody else: no file that a search could
\* find is a part of a download.
NeverCut == \A d \in 1..Dirs : file[d] # Cut

\* Two downloads of one name at once do not exchange their bytes: what a process renames into
\* the cache is what its own url has.
OwnBytes ==
  [][\A p \in Processes : pc[p] = "fetched" /\ pc'[p] = "record" => file'[1] = url[p]]_vars

\* Every request is answered, unless its process dies.
Answered == \A p \in Processes : pc[p] # "idle" ~> pc[p] = "idle"

-----------------------------------------------------------------------------
\* "records the URL it came from, so a later request for a DIFFERENT url with the same
\* basename is not silently served the wrong bytes": the file of a request that finds its
\* url in the sidecar is from that url.
NeverMislabelled ==
  [][\A p \in Processes :
       pc[p] = "check" /\ pc'[p] = "hit" /\ src[at[p]] = url[p] => file[at[p]] = url[p]]_vars
=============================================================================
