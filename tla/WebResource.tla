---------------------------- MODULE WebResource ----------------------------
(***************************************************************************)
(* What the pages assume of createResource, the data primitive of solid-js:*)
(* one value, one request whose answer counts, the newest one.  A refetch  *)
(* keeps the value until its answer lands, a source that is null or false  *)
(* ends what is in flight and keeps the value, `mutate` writes the value   *)
(* and leaves the request in flight alone, and a failure makes reading the *)
(* resource throw until a later request is sent.                           *)
(***************************************************************************)
EXTENDS Sequences

Quiet == <<"quiet">>

(* A value is <<>> while there is none and <<v>> afterwards. *)
Unresolved == [value |-> <<>>, failed |-> FALSE, request |-> Quiet]

(* Sends a request for the key; one already in flight no longer counts. *)
Fetch(r, key) == [r EXCEPT !.request = <<"asked", key>>]

(* The source became null or false. *)
SourceGone(r) == [r EXCEPT !.request = Quiet, !.failed = FALSE]

Mutate(r, v) == [r EXCEPT !.value = <<v>>]

(* The server's side: it answers the request with a value, or the request fails. *)
Pending(r)  == r.request[1] = "asked"
KeyOf(r)    == r.request[2]
Answer(r, v) == [r EXCEPT !.request = <<"served", v>>]
Refuse(r)    == [r EXCEPT !.request = <<"refused">>]

(* The answer reaches the page. *)
Answered(r) == r.request[1] \in {"served", "refused"}
Land(r) ==
    IF r.request[1] = "served"
    THEN [value |-> <<r.request[2]>>, failed |-> FALSE, request |-> Quiet]
    ELSE [r EXCEPT !.failed = TRUE, !.request = Quiet]

(* `data.loading`, and what `data()` returns: reading a failed resource throws. *)
Loading(r) == r.request # Quiet
Throws(r) == r.failed /\ ~Loading(r)
Shown(r) == r.value # <<>> /\ ~Throws(r)
=============================================================================
