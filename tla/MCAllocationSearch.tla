------------------------- MODULE MCAllocationSearch -------------------------
(* The problems AllocationSearch is checked on: tables of devices of several  *)
(* kinds, in every order, with the requests made of them.                     *)
EXTENDS AllocationSearch

\* A device of kind k with ID d; its endpoint is its own, unless the kind
\* names one that several logical devices share.
DeviceOf(k, d) ==
    [pf |-> k.pf, sid |-> k.sid, numa |-> k.numa,
     link |-> IF k.bus = "own" THEN Append(k.up, 20 + d) ELSE k.up]

Tables(n, kinds) == {[d \in 1 .. n |-> DeviceOf(f[d], d)] : f \in [1 .. n -> kinds]}

Request(n, must, size) == [available |-> [i \in 1 .. n |-> i], must |-> must, size |-> size]

\* PCI paths differ, nothing else does; one leads through something not PCI.
PciKinds ==
    [pf : {0}, sid : {0}, numa : {0}, bus : {"own"},
     up : {<<0, 1>>, <<0, 1, 11>>, <<0, 1, 12>>, <<0, 2, 11>>, <<0, 1, 0>>}]
PciRequests == {Request(5, <<>>, 2), Request(5, <<>>, 3), Request(5, <<3>>, 3)}

\* Everything differs.
Kind(pf, sid, numa, bus, up) == [pf |-> pf, sid |-> sid, numa |-> numa, bus |-> bus, up |-> up]
MixedKinds ==
    {Kind(0, 1, 0, "own", <<0, 1, 11>>), Kind(0, 1, 1, "own", <<0, 1, 12>>),
     Kind(0, 2, 0, "own", <<0, 1, 12>>), Kind(0, 0, 0, "own", <<0, 2>>),
     Kind(7, 1, 0, "own", <<0, 1, 11>>), Kind(0, 0, 1, "shared", <<0, 1, 11, 19>>),
     Kind(0, 2, -1, "own", <<0>>)}

\* Requests with and without a choice, and requests that make no sense.
MixedRequests ==
    {Request(4, <<>>, 2), Request(4, <<>>, 3), Request(4, <<2>>, 2), Request(4, <<4, 1, 4>>, 3),
     Request(4, <<3, 1>>, 2), Request(4, <<2>>, 4), Request(4, <<>>, 0),
     Request(4, <<>>, -1), Request(4, <<>>, 5), Request(4, <<1, 2>>, 1), Request(4, <<9>>, 1),
     [available |-> <<3, 1, 3>>, must |-> <<>>, size |-> 1],
     [available |-> <<1, 2>>, must |-> <<3>>, size |-> 1],
     [available |-> <<1, 9>>, must |-> <<>>, size |-> 1]}

MCProblems ==
    [devices : Tables(5, PciKinds), request : PciRequests]
        \cup [devices : Tables(4, MixedKinds), request : MixedRequests]
=============================================================================
