----------------------------- MODULE AgentReads -----------------------------
(***************************************************************************)
(* What the agent reads from the image and from a run's container and keeps *)
(* (agent.py): the catalog, one fetch at a time and by image id, and the    *)
(* meshes a run's description draws, read once by a thread of its own and   *)
(* kept across the runs of an image.                                       *)
(*                                                                         *)
(* Images are numbered as they are pulled: a pull moves the tag to an image *)
(* it never named before.  A run's container stays on the image it was      *)
(* started from.                                                           *)
(***************************************************************************)
EXTENDS Integers, FiniteSets

CONSTANTS
    None,
    Callers,      \* the workers that may ask for the catalog
    Runs,         \* the runs, in the order they come
    Meshes,       \* the meshes the description of every run draws
    PullsAnytime, \* FALSE: the image is only pulled with no run's container up
    MaxImage,     \* bound: the last image
    MaxAsks       \* bound: catalogs asked for by one caller

VARIABLES
    tag,          \* the image the tag names
    \* the catalog
    call,         \* each caller: where it is in catalog()
    flight,       \* who holds _catalog_flight
    cached,       \* _catalog: the image id and the image its text came from
    failed,       \* the last fetch failed less than CATALOG_FAILURE_TTL_S ago
    asks,
    \* the runs
    box,          \* each run: None, the image of its container, or Gone
    described,    \* its description is read, and its reader started
    reader,       \* _read_meshes of it
    meshesRead,   \* the event that its reader is done
    kept,         \* _meshes: for each mesh None or [image: read from, by: for]
    keptImage     \* _meshes_image

catalogVars == <<call, flight, cached, failed, asks>>
meshVars == <<box, described, reader, meshesRead, kept, keptImage>>
vars == <<tag, catalogVars, meshVars>>

Gone   == 0
Images == 1..MaxImage
Away   == [at |-> "away"]
Maybe(S) == S \cup {None}

TypeOK ==
    /\ tag \in Images
    /\ call \in [Callers -> {Away} \cup [at: {"asking", "held"}, from: Images]
                   \cup [at: {"read"}, from: Images, id: Images]
                   \cup [at: {"fetched"}, from: Images, id: Images, doc: Images]
                   \cup [at: {"answered"}, from: Images, doc: Maybe(Images)]]
    /\ flight \in Maybe(Callers)
    /\ cached \in Maybe([id: Images, doc: Images])
    /\ failed \in BOOLEAN /\ asks \in [Callers -> 0..MaxAsks]
    /\ box \in [Runs -> Maybe(Images \cup {Gone})]
    /\ described \in [Runs -> BOOLEAN] /\ meshesRead \in [Runs -> BOOLEAN]
    /\ reader \in [Runs -> Maybe([at: {"started", "done"}])
                     \cup [at: {"wants"}, image: Images, wanted: SUBSET Meshes]
                     \cup [at: {"found"}, image: Images, wanted: SUBSET Meshes, of: Images]]
    /\ kept \in [Meshes -> Maybe([image: Images, by: Images])]
    /\ keptImage \in Maybe(Images)

Init ==
    /\ tag = 1
    /\ call = [c \in Callers |-> Away] /\ flight = None /\ cached = None
    /\ failed = FALSE /\ asks = [c \in Callers |-> 0]
    /\ box = [r \in Runs |-> None] /\ described = [r \in Runs |-> FALSE]
    /\ reader = [r \in Runs |-> None] /\ meshesRead = [r \in Runs |-> FALSE]
    /\ kept = [m \in Meshes |-> None] /\ keptImage = None

(* docker pull, by `host pull` or by hand. *)
Pull ==
    /\ tag < MaxImage /\ tag' = tag + 1
    /\ PullsAnytime \/ \A r \in Runs : box[r] \in {None, Gone}
    /\ UNCHANGED <<catalogVars, meshVars>>

-----------------------------------------------------------------------------
(* catalog(), which `catalog` and `up` call.  `from` is history: the tag when
   the caller came.  "Mutant" marks the operator after it with a bug a change
   to the code could make. *)

Come(c) ==
    /\ call[c] = Away /\ asks[c] < MaxAsks
    /\ asks' = [asks EXCEPT ![c] = @ + 1]
    /\ call' = [call EXCEPT ![c] = [at |-> "asking", from |-> tag]]
    /\ UNCHANGED <<tag, flight, cached, failed, meshVars>>

Enter(c) ==
    /\ call[c].at = "asking" /\ flight = None
    /\ flight' = c /\ call' = [call EXCEPT ![c].at = "held"]
    /\ UNCHANGED <<tag, cached, failed, asks, meshVars>>

Answer(c, doc) ==
    /\ call' = [call EXCEPT ![c] = [at |-> "answered", from |-> call[c].from, doc |-> doc]]
    /\ flight' = None

(* Within its time a failure is answered without asking again. *)
Remembered(c) ==
    /\ call[c].at = "held" /\ failed
    /\ Answer(c, None)
    /\ UNCHANGED <<tag, cached, failed, asks, meshVars>>

(* docker image inspect, or the fetch after it, fails. *)
Fail(c) ==
    /\ call[c].at \in {"held", "read"} /\ (call[c].at = "held" => ~failed)
    /\ failed' = TRUE /\ Answer(c, None)
    /\ UNCHANGED <<tag, cached, asks, meshVars>>

ReadId(c) ==
    /\ call[c].at = "held" /\ ~failed
    /\ call' = [call EXCEPT ![c] = [at |-> "read", from |-> call[c].from, id |-> tag]]
    /\ UNCHANGED <<tag, flight, cached, failed, asks, meshVars>>

(* Mutant: the cache is not asked what image it is of. *)
HitsAny(id) == cached # None
Hits(id)    == cached # None /\ cached.id = id

Hit(c) ==
    /\ call[c].at = "read" /\ Hits(call[c].id)
    /\ Answer(c, cached.doc)
    /\ UNCHANGED <<tag, cached, failed, asks, meshVars>>

(* docker run of the tag, which a pull may have moved since. *)
Fetch(c) ==
    /\ call[c].at = "read" /\ ~Hits(call[c].id)
    /\ call' = [call EXCEPT ![c] = [at |-> "fetched", from |-> call[c].from, id |-> call[c].id, doc |-> tag]]
    /\ UNCHANGED <<tag, flight, cached, failed, asks, meshVars>>

Store(c) ==
    /\ call[c].at = "fetched"
    /\ cached' = [id |-> call[c].id, doc |-> call[c].doc] /\ failed' = FALSE
    /\ Answer(c, call[c].doc)
    /\ UNCHANGED <<tag, asks, meshVars>>

Leave(c) ==
    /\ call[c].at = "answered" /\ call' = [call EXCEPT ![c] = Away]
    /\ UNCHANGED <<tag, flight, cached, failed, asks, meshVars>>

Forget ==
    /\ failed /\ failed' = FALSE
    /\ UNCHANGED <<tag, call, flight, cached, asks, meshVars>>

-----------------------------------------------------------------------------
(* The runs, one after the other, and their meshes. *)

Start(r) ==
    /\ box[r] = None /\ \A q \in Runs : q < r => box[q] = Gone
    /\ box' = [box EXCEPT ![r] = tag]
    /\ UNCHANGED <<tag, catalogVars, described, reader, meshesRead, kept, keptImage>>

End(r) ==
    /\ box[r] \in Images /\ box' = [box EXCEPT ![r] = Gone]
    /\ UNCHANGED <<tag, catalogVars, described, reader, meshesRead, kept, keptImage>>

(* description(), for `description` or `asset`: the first to read it starts
   the reader. *)
Describe(r) ==
    /\ box[r] \in Images /\ ~described[r]
    /\ described' = [described EXCEPT ![r] = TRUE]
    /\ reader' = [reader EXCEPT ![r] = [at |-> "started"]]
    /\ UNCHANGED <<tag, catalogVars, box, meshesRead, kept, keptImage>>

(* Mutant: the cache is not emptied for a new image. *)
EmptiedNever == kept
Emptied == IF tag = keptImage THEN kept ELSE [m \in Meshes |-> None]

Done(r) ==
    /\ reader' = [reader EXCEPT ![r] = [at |-> "done"]]
    /\ meshesRead' = [meshesRead EXCEPT ![r] = TRUE]

(* The reader asks which image the tag names, and what the cache lacks of it;
   where it lacks nothing it is done. *)
ReaderWants(r) ==
    /\ reader[r] # None /\ reader[r].at = "started"
    /\ keptImage' = tag /\ kept' = Emptied
    /\ LET wanted == {m \in Meshes : kept'[m] = None} IN
       IF wanted = {} THEN Done(r)
       ELSE /\ reader' = [reader EXCEPT ![r] = [at |-> "wants", image |-> tag, wanted |-> wanted]]
            /\ UNCHANGED meshesRead
    /\ UNCHANGED <<tag, catalogVars, box, described>>

ReaderFinds(r) ==
    /\ reader[r] # None /\ reader[r].at = "wants" /\ box[r] \in Images
    /\ \E found \in SUBSET reader[r].wanted :
         reader' = [reader EXCEPT ![r] = [at |-> "found", image |-> reader[r].image,
                                          wanted |-> found, of |-> box[r]]]
    /\ UNCHANGED <<tag, catalogVars, box, described, meshesRead, kept, keptImage>>

(* image_id or the read fails, as it does in a container that is gone. *)
ReaderFails(r) ==
    /\ reader[r] # None /\ reader[r].at \in {"started", "wants"}
    /\ Done(r)
    /\ UNCHANGED <<tag, catalogVars, box, described, kept, keptImage>>

(* Mutant: what was read is kept whatever the cache is of by now. *)
StillOfAny(r) == TRUE
StillOf(r)    == reader[r].image = keptImage

ReaderStores(r) ==
    /\ reader[r] # None /\ reader[r].at = "found"
    /\ \E fits \in SUBSET reader[r].wanted :     \* MAX_ASSET_BYTES, MAX_MESHES_BYTES
         kept' = IF StillOf(r)
                 THEN [m \in Meshes |-> IF m \in fits
                                        THEN [image |-> reader[r].of, by |-> reader[r].image]
                                        ELSE kept[m]]
                 ELSE kept
    /\ Done(r)
    /\ UNCHANGED <<tag, catalogVars, box, described, keptImage>>

Next ==
    \/ Pull \/ Forget
    \/ \E c \in Callers : \/ Come(c) \/ Enter(c) \/ Remembered(c) \/ Fail(c) \/ ReadId(c)
                          \/ Hit(c) \/ Fetch(c) \/ Store(c) \/ Leave(c)
    \/ \E r \in Runs : \/ Start(r) \/ End(r) \/ Describe(r)
                       \/ ReaderWants(r) \/ ReaderFinds(r) \/ ReaderFails(r) \/ ReaderStores(r)

Spec == Init /\ [][Next]_vars

-----------------------------------------------------------------------------
(* Properties. *)

(* A catalog that is answered is of no older image than the tag named when its
   caller came, also where the tag moves between the read of its id and the
   fetch. *)
CatalogFresh ==
    \A c \in Callers : call[c].at = "answered" /\ call[c].doc # None => call[c].doc >= call[c].from

(* The meshes kept were read under the image id they are kept for: a run's slow
   reader adds nothing to what the next run's has begun. *)
OneImage == \A m \in Meshes : kept[m] # None => kept[m].by = keptImage

(* "Mesh bytes by URI, for the image they were read from" (agent.py:329): the
   meshes kept were read from a container of the image they are kept for.
   Where an image is pulled under a run, the reader takes the new id for the
   old container. *)
MeshesOfImage == \A m \in Meshes : kept[m] # None => kept[m].image = keptImage

(* What is kept of an image is of that image. *)
KeptOfImage == CatalogFresh /\ OneImage /\ MeshesOfImage
=============================================================================
