----------------------------- MODULE SnapshotFiles -----------------------------
(***************************************************************************)
(* The files of the recorded service and the scripts that write them.      *)
(* Each script of src/scripts that makes a part of the recorded data, and  *)
(* a start of the service (build_runtime), is a process that reads files,  *)
(* computes, and writes files, one after the other.  Nothing keeps two of  *)
(* them apart: they may run at the same time, and each may be stopped at   *)
(* any point.                                                              *)
(*                                                                         *)
(* A file that is being written is torn: opening it for writing empties    *)
(* it, and it is whole when it is closed.                                  *)
(***************************************************************************)
EXTENDS ServiceSnapshot, MarketRecording, TitleNews

CONSTANTS
  Procs,
  MaxStarts,      \* bound: how many scripts are started
  Harvests,       \* what the news searches may find, by name: results of each security
  Inquiries,      \* what a filing may be made of, by name: an input of each security
  Papers,         \* what a report may be made of, by name: an input of each security
  Searches,       \* what the searches for headlines may find, by name
  Feeds,          \* what the broker may answer, by name
  Tried,          \* bound: the names of what a script of each kind is given
  Earlier,        \* what earlier runs of the scripts were given: see FilesLeft
  Torn

VARIABLES
  files,    \* what each file holds
  procs,    \* the processes
  starts,   \* how many were started
  made      \* history: the snapshots that were built

fileVars == <<files, procs, starts, made>>

-----------------------------------------------------------------------------
(* Files *)

CandidateFile(s) == <<"candidates", s>>
SourceFile(type, s) == <<type, s>>
SnapshotFile(part) == <<part>>
TitleFile == <<"titles">>
MarketFile == <<"market">>

FourParts == <<"manifest", "documents", "coverage", "permission">>
SixParts == FourParts \o <<"checksum", "validation">>

SourceFiles ==
  Flat(SeqMap(LAMBDA s : SeqMap(LAMBDA type : SourceFile(type, s), SourceOrder), Securities))

FileNames ==
  {CandidateFile(s) : s \in Companies} \cup ToSet(SourceFiles)
    \cup ToSet(SeqMap(SnapshotFile, SixParts)) \cup {TitleFile, MarketFile}

-----------------------------------------------------------------------------
(* Scripts.  A script goes through its units: the companies, or the parts  *)
(* of its work.                                                            *)

Kinds == {"harvest", "curate", "file", "report", "build", "titles", "market", "serve"}

Units(kind) ==
  CASE kind \in {"harvest", "curate", "file", "report"} -> Securities
    [] kind = "titles" -> <<"write", "check">>
    [] OTHER -> <<"all">>

\* What it reads for a unit, in order.  A start reads the six files of the snapshot,
\* the first four again, then the headlines and the prices.
StartReads ==
  SeqMap(SnapshotFile, SixParts \o FourParts) \o <<TitleFile, MarketFile>>

Reads(kind, unit) ==
  CASE kind = "curate" -> <<CandidateFile(unit)>>
    [] kind = "build" -> SourceFiles
    [] kind = "titles" /\ unit = "check" -> <<TitleFile>>
    [] kind = "serve" -> StartReads
    [] OTHER -> << >>

Uses ==
  [kind \in Kinds |-> UNION {ToSet(Reads(kind, Units(kind)[i])) : i \in DOMAIN Units(kind)}]

\* What it writes for a unit, of what it was given and has read: files and their new
\* contents, in order.  Invalid if it gives up.
Writing(file, content) == IF content = Invalid THEN Invalid ELSE <<[file |-> file, content |-> content]>>

Sources(seen) ==
  [k \in ToSet(SourceFiles) |-> seen[CHOOSE i \in DOMAIN SourceFiles : SourceFiles[i] = k]]

BuiltFiles(built) ==
  IF built = Invalid THEN Invalid
  ELSE SeqMap(LAMBDA part : [file |-> SnapshotFile(part), content |-> built[part]], SixParts)

\* build_runtime, with a snapshot selected
Started(seen) ==
  LET six == [part \in ToSet(SixParts) |-> seen[CHOOSE i \in DOMAIN SixParts : SixParts[i] = part]]
      again == [part \in ToSet(FourParts) |->
                  seen[Len(SixParts) + CHOOSE i \in DOMAIN FourParts : FourParts[i] = part]]
      documents == LoadService(six, again) IN
  IF documents = Invalid THEN Invalid
  ELSE IF TitleDocuments(seen[11]) = Invalid \/ ~MatrixSound(seen[12]) THEN Invalid ELSE << >>

Result(kind, unit, input, seen) ==
  CASE kind = "harvest" -> Writing(CandidateFile(unit), Harvest(unit, Harvests[input][unit]))
    [] kind = "curate" -> Writing(SourceFile("news", unit), CurateNews(unit, seen[1]))
    [] kind = "file" -> Writing(SourceFile("disclosure", unit), CurateDisclosure(unit, Inquiries[input][unit]))
    [] kind = "report" -> Writing(SourceFile("research_report", unit), CurateReport(unit, Papers[input][unit]))
    [] kind = "build" -> BuiltFiles(BuildService(Sources(seen)))
    [] kind = "titles" ->
         IF unit = "write" THEN Writing(TitleFile, CollectTitles(Searches[input]))
         ELSE IF TitleDocuments(seen[1]) = Invalid THEN Invalid ELSE << >>
    [] kind = "market" -> Writing(MarketFile, CollectMarket(Feeds[input]))
    [] kind = "serve" -> Started(seen)

Inputs(kind) == IF kind \in DOMAIN Tried THEN Tried[kind] ELSE {"none"}

\* The search answers every query, and with what is on the wire.
Answered(results, s) == \A n \in DOMAIN Queries[s] : results[s][n] \in Seq(DOMAIN Wire)

ASSUME InputsAssumption ==
  /\ \A h \in DOMAIN Harvests, s \in Companies : Answered(Harvests[h], s)
  /\ \A h \in DOMAIN Searches, s \in Companies :
       /\ Searches[h][s] \in Seq(ToSet(Searches[h][s]))
       /\ \A n \in DOMAIN Searches[h][s] :
            Searches[h][s][n] \in Seq(DOMAIN Wire) /\ TitleCalls[n] \in Nat \ {0}
  /\ Inputs("harvest") \subseteq DOMAIN Harvests /\ Inputs("titles") \subseteq DOMAIN Searches
  /\ Inputs("market") \subseteq DOMAIN Feeds /\ Inputs("report") \subseteq DOMAIN Papers
  /\ \A e \in Earlier :
       /\ {e.harvest, e.curated, e.builtOf} \subseteq DOMAIN Harvests
       /\ e.search \in DOMAIN Searches /\ e.feed \in DOMAIN Feeds /\ e.paper \in DOMAIN Papers

-----------------------------------------------------------------------------
(* Processes *)

Active(p) == procs[p].stage \in {"reading", "writing"}

NoProcess == [kind |-> "none", stage |-> "idle", input |-> "none", unit |-> 0, seen |-> << >>,
              writes |-> << >>, open |-> FALSE, overlapped |-> FALSE, calm |-> FALSE]

\* The files of the snapshot, as they are, are those of one build.
SnapshotWhole ==
  LET four == [part \in ToSet(FourParts) |-> files[SnapshotFile(part)]] IN
  /\ four \in made
  /\ files[SnapshotFile("checksum")] = Checksum(four)
  /\ files[SnapshotFile("validation")] = ValidationReport(four.documents)

HasOpen(q, file) == IF procs[q].open THEN Head(procs[q].writes).file = file ELSE FALSE

\* What it uses was left by scripts that finished, and nobody is writing it.
Undisturbed(kind) ==
  /\ \A f \in Uses[kind] : files[f] # Torn /\ \A q \in Procs : ~HasOpen(q, f)
  /\ kind = "serve" => SnapshotWhole

Start(p) ==
  /\ ~Active(p) /\ starts < MaxStarts
  /\ starts' = starts + 1
  /\ \E kind \in Kinds : \E input \in Inputs(kind) :
       procs' = [procs EXCEPT ![p] =
                   [NoProcess EXCEPT !.kind = kind, !.stage = "reading", !.input = input,
                                     !.unit = 1, !.calm = Undisturbed(kind)]]
  /\ UNCHANGED <<files, made>>

Unit(p) == Units(procs[p].kind)[procs[p].unit]
ToRead(p) == Reads(procs[p].kind, Unit(p))

\* It gives up on a file it cannot parse.
Read(p) ==
  LET seen == procs[p].seen IN
  /\ procs[p].stage = "reading" /\ Len(seen) < Len(ToRead(p))
  /\ LET content == files[ToRead(p)[Len(seen) + 1]] IN
     procs' = IF content = Torn
                THEN [procs EXCEPT ![p].stage = "refused"]
                ELSE [procs EXCEPT ![p].seen = Append(seen, content)]
  /\ UNCHANGED <<files, starts, made>>

\* After its writes: the next unit, or the end.  A start keeps what it serves.
Onward(record) ==
  IF record.unit < Len(Units(record.kind))
    THEN [record EXCEPT !.stage = "reading", !.unit = @ + 1, !.seen = << >>]
  ELSE IF record.kind = "serve" THEN [record EXCEPT !.stage = "serving"]
  ELSE NoProcess

\* It has come to a result: what is to be written, nothing, or Invalid.
Arrived(p, result) ==
  /\ procs' = [procs EXCEPT ![p] =
                 IF result = Invalid THEN [@ EXCEPT !.stage = "refused"]
                 ELSE IF result = << >> THEN Onward(@)
                 ELSE [@ EXCEPT !.stage = "writing", !.writes = result, !.seen = << >>]]
  /\ made' = IF procs[p].kind = "build" /\ result # Invalid
               THEN made \cup {[part \in ToSet(FourParts) |->
                                  result[CHOOSE i \in DOMAIN SixParts : SixParts[i] = part].content]}
               ELSE made

Compute(p) ==
  /\ procs[p].stage = "reading" /\ Len(procs[p].seen) = Len(ToRead(p))
  /\ Arrived(p, Result(procs[p].kind, Unit(p), procs[p].input, procs[p].seen))
  /\ UNCHANGED <<files, starts>>

\* What p's touching the file does to those that use it or write it.
Touched(p, file) ==
  [q \in Procs |->
     IF q = p THEN procs[p]
     ELSE [procs[q] EXCEPT
             !.calm = @ /\ ~(Active(q) /\ file \in Uses[procs[q].kind]),
             !.overlapped = @ \/ HasOpen(q, file)]]

Open(p) ==
  LET file == Head(procs[p].writes).file IN
  /\ procs[p].stage = "writing" /\ ~procs[p].open
  /\ files' = [files EXCEPT ![file] = Torn]
  /\ procs' = [Touched(p, file) EXCEPT
                  ![p].open = TRUE,
                  ![p].overlapped = \E q \in Procs \ {p} : HasOpen(q, file)]
  /\ UNCHANGED <<starts, made>>

\* If another wrote the file meanwhile, the rest of what that one wrote may remain.
Close(p) ==
  LET process == procs[p]
      write == Head(process.writes)
      left == Tail(process.writes)
      closed == [process EXCEPT !.open = FALSE, !.overlapped = FALSE, !.writes = left] IN
  /\ process.stage = "writing" /\ process.open
  /\ \E content \in {write.content} \cup (IF process.overlapped THEN {Torn} ELSE {}) :
       files' = [files EXCEPT ![write.file] = content]
  /\ procs' = [Touched(p, write.file) EXCEPT ![p] = IF left = << >> THEN Onward(closed) ELSE closed]
  /\ UNCHANGED <<starts, made>>

\* A script that is stopped while it reads leaves nothing that it does not leave when
\* it is stopped before its next write.
Crash(p) ==
  /\ procs[p].stage = "writing"
  /\ procs' = [procs EXCEPT ![p] = NoProcess]
  /\ UNCHANGED <<files, starts, made>>

\* What earlier runs of the scripts left: the candidates of a harvest, the sources
\* curated of maybe another, a snapshot built of maybe others.
SourcesLeft(harvest, inquiry, paper) ==
  [k \in ToSet(SourceFiles) |->
     CASE k[1] = "news" -> CurateNews(k[2], Harvest(k[2], Harvests[harvest][k[2]]))
       [] k[1] = "disclosure" -> CurateDisclosure(k[2], Inquiries[inquiry][k[2]])
       [] k[1] = "research_report" -> CurateReport(k[2], Papers[paper][k[2]])]

SnapshotLeft(e) == BuildService(SourcesLeft(e.builtOf, e.builtWith, e.paper))

FilesLeft(e) ==
  [f \in FileNames |->
     CASE f[1] = "candidates" -> Harvest(f[2], Harvests[e.harvest][f[2]])
       [] f[1] \in ToSet(SourceOrder) -> SourcesLeft(e.curated, e.filed, e.paper)[f]
       [] f = TitleFile -> CollectTitles(Searches[e.search])
       [] f = MarketFile -> CollectMarket(Feeds[e.feed])
       [] OTHER -> SnapshotLeft(e)[f[1]]]

\* None of the earlier runs was refused.
ASSUME EarlierAssumption ==
  \A e \in Earlier :
    /\ \A f \in FileNames : FilesLeft(e)[f] # Invalid
    /\ \A harvest \in {e.curated, e.builtOf}, s \in Companies : Harvest(s, Harvests[harvest][s]) # Invalid
    /\ \A f \in ToSet(SourceFiles) : SourcesLeft(e.builtOf, e.builtWith, e.paper)[f] # Invalid
    /\ SnapshotLeft(e) # Invalid

Beginning(contents) ==
  /\ files = contents
  /\ made = {[part \in ToSet(FourParts) |-> contents[SnapshotFile(part)]]}

Init ==
  /\ \E e \in Earlier : Beginning(FilesLeft(e))
  /\ procs = [p \in Procs |-> NoProcess]
  /\ starts = 0

Next == \E p \in Procs : Start(p) \/ Read(p) \/ Compute(p) \/ Open(p) \/ Close(p) \/ Crash(p)
Spec == Init /\ [][Next]_fileVars

-----------------------------------------------------------------------------
(* Properties *)

Serving(p) == procs[p].stage = "serving"

\* What a start serves was built together: its manifest, documents, coverage and
\* permissions are those of one build, however many builds wrote the files, one after
\* the other or at the same time, while it read them, and wherever they were stopped.
LoadedWhole ==
  \A p \in Procs : Serving(p) =>
    \E m \in made : \A i \in DOMAIN FourParts : procs[p].seen[i] = m[FourParts[i]]

\* What somebody was told of a filing, or what a page is called or where it is, that
\* build_service_snapshot does not serve although the curators let it pass.
Unfit(seen) ==
  \E k \in ToSet(SourceFiles) :
    LET payload == Sources(seen)[k] IN
    \/ k[1] = "disclosure" /\ \/ payload.document.notice.status = "pending"
                              \/ payload.document.notice.superseded
                              \/ payload.document.notice.withdrawn
    \/ k[1] = "news" /\ \E d \in ToSet(payload.documents) :
         d.url \in SignedPages \/ d.title \in LongTitles \cup PathTitles

ListedTwice(found) ==
  \E s \in Companies : \E t \in Companies \ {s} :
    \E i \in DOMAIN found[s], j \in DOMAIN found[t] :
      \E x \in ToSet(found[s][i]), y \in ToSet(found[t][j]) :
        /\ Apt(Wire[x], s) /\ Apt(Wire[y], t)
        /\ SourceUrl(Wire[x]) = SourceUrl(Wire[y])

\* On files that finished scripts left, and if none of them is written meanwhile, a
\* start is never refused, a build only for what it may not serve, and the headlines
\* only for an article that was found for two companies: each part writes what the
\* next one, which checks it all again, accepts.
RefusalsHaveCause ==
  \A p \in Procs : procs[p].stage = "refused" /\ procs[p].calm =>
    CASE procs[p].kind = "serve"  -> FALSE
      [] procs[p].kind = "build"  -> Unfit(procs[p].seen)
      [] procs[p].kind = "titles" -> ListedTwice(Searches[procs[p].input])
      [] OTHER -> TRUE

\* The news of a company: each of them something the search found that names it, in
\* the window, told as the event it was taken for is told, and no event twice.
NewsServed(documents, s) ==
  LET news == OfSource(documents, "news", s)
      tells(d, rule) ==
        /\ d.text = rule.summary /\ Band(d.at) = rule.band
        /\ \E key \in DOMAIN Wire :
             LET item == Wire[key] IN
             /\ item.title = d.title /\ item.at = d.at /\ Url(item) = d.url
             /\ s \in item.named \cup item.also /\ item.words \cap rule.terms # {}
  IN /\ \A i \in DOMAIN news : WindowStart <= news[i].at /\ news[i].at <= WindowEnd
     /\ \A rule \in ToSet(Rules[s]) :
          Cardinality({i \in DOMAIN news : tells(news[i], rule)}) = 1

\* The filing of a company: it stands, somebody looked, and it says what it must.
FilingServed(documents, s) ==
  \E d \in ToSet(documents) :
    /\ d.source = "disclosure" /\ d.primary = {s}
    /\ d.notice.status \in {"verified_official_api", "verified_official_viewer"}
    /\ d.notice.remark \cap {"corrected", "withdrawn"} = {}
    /\ RequiredCategories \subseteq {d.facts[i].category : i \in DOMAIN d.facts}

\* The report of a company, section by section as it was approved.
ReportServed(documents, s) ==
  \A a \in ToSet(Report[s].segments) :
    \E d \in ToSet(documents) : /\ d.source = "research_report" /\ d.primary = {s}
                                /\ Sha256(d.text) = a.approved /\ d.page = a.page /\ ~d.external

\* The headlines: about a company an article names at once, and not too many a day.
TitlesServed(payload) ==
  /\ \A d \in payload.documents :
       \E key \in DOMAIN Wire : /\ d.title = Wire[key].title /\ d.at = Wire[key].at
                                /\ d.primary \subseteq Wire[key].leads
  /\ \A s \in Companies, day \in {Day(d) : d \in payload.documents} :
       Cardinality({d \in payload.documents : d.primary = {s} /\ Day(d) = day}) <= DailyCap

\* The prices: none from after the moment they are for, all of the last day on which
\* there was trade, against the close of the trading day before that one.
PricesServed(payload) ==
  \A s \in Companies, moment \in Checkpoints :
    LET r == Quoted(payload, s, moment)
        day == DayOf(r.at) IN
    /\ r.at <= moment
    /\ day \in TradingDays /\ \A d \in TradingDays : d <= DayOf(moment) => d <= day
    /\ \E feed \in DOMAIN Feeds : r.previous = Observed(Feeds[feed], s, PreviousDay[day], 1530, "J").price

\* What a start serves, whatever was collected, curated and built before and whichever
\* scripts ran at the same time or were stopped.
ServedIsSound ==
  \A p \in Procs : Serving(p) =>
    /\ \A s \in Companies :
         /\ NewsServed(procs[p].seen[2], s)
         /\ FilingServed(procs[p].seen[2], s)
         /\ ReportServed(procs[p].seen[2], s)
    /\ TitlesServed(procs[p].seen[11])
    /\ PricesServed(procs[p].seen[12])
=============================================================================
