\* One account with a second factor; the page of the second factor must offer its form.
SPECIFICATION SessionSpec

CONSTANTS
    Users = {"ann"}
    NoOne = "nobody"
    MaxSteps = 2

INVARIANTS
    SecondFactorOffered

CHECK_DEADLOCK FALSE
