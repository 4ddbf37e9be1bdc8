-------------------------- MODULE MCProxyLifecycle --------------------------
(* Configuration files for ProxyLifecycle.                                 *)
EXTENDS ProxyLifecycle

Server(a, w) == [address |-> a, weight |-> w]
Backend(n, lb, srvs) ==
    [name |-> n, loadBalance |-> lb, interval |-> 0, timeout |-> 0, servers |-> srvs]
Frontend(n, l, b, q) == [name |-> n, listen |-> l, backend |-> b, priority |-> q]
File(fs, bs, w, r) ==
    [maxPacketSize |-> 0, workerThreads |-> w, sessionTimeout |-> 0, cleanupInterval |-> 0,
     metricsAddr |-> "", reusePort |-> r, frontends |-> fs, backends |-> bs]

Pool == Backend("pool", "", <<Server("b1:53", 0)>>)

\* A file that is in order, with the lower priority first.
Plain == File(<<Frontend("one", ":53", "pool", "low"), Frontend("two", ":54", "pool", " Critical")>>,
              <<Pool>>, 0, FALSE)

\* Files that are accepted and files that are not: one for each check of validate.
SomeFiles ==
    {Plain,
     File(<<Frontend("one", ":53", "pool", "bulk"), Frontend("two", ":53", "pool", "")>>,
          <<Pool>>, 1, FALSE),
     File(<<Frontend("one", ":53", "pool", " "), Frontend("two", ":0", "pool", "high")>>,
          <<Pool>>, 2, TRUE),
     [Plain EXCEPT !.frontends = <<>>],
     [Plain EXCEPT !.backends = <<>>],
     [Plain EXCEPT !.frontends[1].name = ""],
     [Plain EXCEPT !.frontends[1].name = "two"],
     [Plain EXCEPT !.frontends[1].listen = ""],
     [Plain EXCEPT !.frontends[1].backend = ""],
     [Plain EXCEPT !.frontends[1].backend = "other"],
     [Plain EXCEPT !.frontends[1].priority = "urgent"],
     [Plain EXCEPT !.backends[1].name = ""],
     [Plain EXCEPT !.backends = <<Pool, Pool>>],
     [Plain EXCEPT !.backends[1].loadBalance = "fastest"],
     [Plain EXCEPT !.backends[1].servers = <<>>],
     [Plain EXCEPT !.backends[1].servers[1].address = ""]}

OneFile == {Plain}
=============================================================================
