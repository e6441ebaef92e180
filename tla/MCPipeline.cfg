\* Every operation alone and in pairs, every tool in both places, and the
\* four studios with three edits each.
SPECIFICATION StudioSpec
CONSTANTS
    Unbounded = 4
    Jobs <- JobsDef
    ChainFiles <- FilesDef
    ChainSteps <- StepsDef
    ToolJobs <- AllTools
    Lenient = {TRUE, FALSE}
    Open = {"gst-invoice-pdf", "pos-billing", "estimate-maker", "tax-receipt"}
    Quantities = {0, 1, 3, 4}
    Rates = {0, 33, 1000}
    Codes = {"9983", "998314"}
    TaxRates = {0, 5, 18}
    Typed <- TypedDef
    MaxEdits = 3
INVARIANTS
    PipelineTypeOK
    ChainDelivers
    BillIsWhole
    SameToolSamePages
PROPERTIES
    ProgressIsHonest
\* A job that is done or failed has ended.
CHECK_DEADLOCK FALSE
