----------------------------- MODULE MCFrontEnd -----------------------------
EXTENDS FrontEnd
Examples == INSTANCE ExampleSources
MCPrograms == Examples!AllModules \o Examples!AllSources \o Examples!Graphs
MCGraphs == Examples!Graphs
=============================================================================
