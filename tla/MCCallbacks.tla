----------------------------- MODULE MCCallbacks -----------------------------
EXTENDS Callbacks

\* Libraries that lack something each: the three checks of drain() meet in pairs.
MCBuilds == {Optional \ {"busy"}, {"trace", "busy"}, {"wal", "busy"}}

Ask(hooks) == [NoRequest EXCEPT !.hooks = hooks]
MCRequests ==
    { Ask({"trace"}), Ask({"busy"}), Ask({"trace", "busy"}),
      [Ask({"collation"}) EXCEPT !.checkpoint = "asked", !.asked = 1],
      [Ask({"progress", "authorize"}) EXCEPT !.checkpoint = "caller", !.preupdate = "required"],
      [NoRequest EXCEPT !.valid = FALSE] }

MCThresholds == {0, 1}
MCNames == {"nocase_de"}
=============================================================================
