SPECIFICATION Spec
CONSTANTS
    python = python
    system = system
    build = build
    bootdir = bootdir
    Leaves = {python, system, build, bootdir}
    Checked = {python, system, build}
    Vital = {python, build}
    Items <- MCItems
    BootIds = {b1, b2, b3}
    NoBoot = NoBoot
    None = None
    MaxGrants = 2
    MaxFaults = 2
SYMMETRY Symmetry
INVARIANTS TypeOK NormalBootIsWhole UnfinishedIsResumable DestructionIsGranted
PROPERTIES JournalClearedWhenDone
